---- MODULE Spec2Model ----
(***************************************************************************)
(* Model of the dashboard-side plant simulation of dvwtp:                  *)
(*   services/mockSimulation.ts  (physicsState, resetDamage,               *)
(*                                simulatePhysics)                         *)
(*   services/api.ts             (PlantApi.currentControls, sendControl,   *)
(*                                the polling loop of connect)             *)
(*                                                                         *)
(* JavaScript numbers are modelled as fixed-point integers, rounded to the *)
(* nearest unit after every multiplication, plus one value NaN that        *)
(* propagates the IEEE-754 way (arithmetic with NaN gives NaN, every       *)
(* comparison with NaN is false).  Units:                                  *)
(*   flows, pressures, concentrations, setpoints, pH : 10^-6 of the unit   *)
(*   levels                                          : 10^-8 m             *)
(*   health                                          : 10^-2 %             *)
(*   TDS                                             : 10^-3 uS/cm         *)
(***************************************************************************)
EXTENDS Integers, FiniteSets, Sequences, TLC

(* ---------------------------------------------------------------------- *)
(* Bounds of the model                                                    *)
(* ---------------------------------------------------------------------- *)
\* ticks explored after Init by the open specification Spec
MaxTicks == 2
\* control writes explored after Init by the open specification Spec
MaxWrites == 2
\* ticks explored by the held-controls specification SpecHeld
MaxHeldTicks == 9000
\* firings of the polling interval explored by SpecPoll
MaxPolls == 2
\* control writes explored by SpecPoll
MaxPollWrites == 1
\* ticks explored from each input of the specification of the tables SpecTable
MaxTableTicks == 2
MaxConnects == 2

(* ---------------------------------------------------------------------- *)
(* Number representation                                                  *)
(* ---------------------------------------------------------------------- *)
Micro == 1000 * 1000
LevelUnit == 100 * Micro
HealthUnit == 10 * 10
NaN == 0 - 2000 * Micro

IsNaN(x) == x = NaN

RoundDiv(a, b) ==
  IF a >= 0 THEN (a + (b \div 2)) \div b
            ELSE 0 - (((0 - a) + (b \div 2)) \div b)

FAdd(a, b) == IF IsNaN(a) \/ IsNaN(b) THEN NaN ELSE a + b
FSub(a, b) == IF IsNaN(a) \/ IsNaN(b) THEN NaN ELSE a - b
\* a * (num / den)
FScale(a, num, den) == IF IsNaN(a) THEN NaN ELSE RoundDiv(a * num, den)
FGt(a, b) == ~IsNaN(a) /\ ~IsNaN(b) /\ a > b
FLt(a, b) == ~IsNaN(a) /\ ~IsNaN(b) /\ a < b
MathMax(a, b) == IF IsNaN(a) \/ IsNaN(b) THEN NaN ELSE IF a >= b THEN a ELSE b
MathMin(a, b) == IF IsNaN(a) \/ IsNaN(b) THEN NaN ELSE IF a <= b THEN a ELSE b

(* ---------------------------------------------------------------------- *)
(* Program constants (mockSimulation.ts)                                  *)
(* ---------------------------------------------------------------------- *)
TANK_AREA_FEED == 10
TANK_AREA_CLEARWELL == 40
WELL_FLOW_RATE == 110
RO_FEED_RATE == 100
DIST_PUMP_CAPACITY == 120
\* RAMP_RATE = 0.1 = 1 / RAMP_RATE_DEN
RAMP_RATE_DEN == 10
MAX_FEED_PRESSURE == 15
\* MEMBRANE_CHLORINE_LIMIT = 0.1 mg/L
MEMBRANE_CHLORINE_LIMIT == Micro \div 10
\* dt_seconds = 0.1 s, in tenths of a second
dt_tenths == 1

BooleanControls ==
  {"wellfield_on", "ro_feed_pump_on", "dist_pump_on",
   "valve_101_open", "valve_201_open", "valve_202_open", "valve_203_open",
   "valve_401_open", "naoh_pump_on", "cl_pump_on"}
NumericControls == {"NaOH_dose", "Cl_dose", "Q_out_sp"}

HealthVars ==
  {"membrane_health", "pump_well_health", "pump_feed_health", "pump_dist_health",
   "pipe_well_health", "pipe_feed_health", "pipe_dist_health"}

\* PlantApi.currentControls as constructed
InitialControls ==
  [wellfield_on |-> FALSE, ro_feed_pump_on |-> FALSE, dist_pump_on |-> FALSE,
   valve_101_open |-> TRUE, valve_201_open |-> TRUE, valve_202_open |-> TRUE,
   valve_203_open |-> TRUE, valve_401_open |-> TRUE,
   naoh_pump_on |-> FALSE, cl_pump_on |-> FALSE,
   NaOH_dose |-> 5 * Micro, Cl_dose |-> 1 * Micro, Q_out_sp |-> 80 * Micro]

\* physicsState as constructed
InitialPhysics ==
  [Q_wellfield |-> 0, Q_feed |-> 0, Q_out |-> 0,
   level_feed_tank |-> 5 * (LevelUnit \div 2), level_clearwell |-> 3 * LevelUnit,
   pressure_well |-> 0, pressure_feed |-> 0, pressure_dist |-> 0,
   TDS_feed |-> 1250 * 1000, pH_true |-> 72 * (Micro \div 10), Cl_true |-> 0,
   H2S_feed |-> 25 * (Micro \div 10),
   membrane_health |-> 100 * HealthUnit, pump_well_health |-> 100 * HealthUnit,
   pump_feed_health |-> 100 * HealthUnit, pump_dist_health |-> 100 * HealthUnit,
   pipe_well_health |-> 100 * HealthUnit, pipe_feed_health |-> 100 * HealthUnit,
   pipe_dist_health |-> 100 * HealthUnit]

(* ---------------------------------------------------------------------- *)
(* simulatePhysics, step by step                                          *)
(* ---------------------------------------------------------------------- *)
\* Debit without the floor at 0
DebitUnfloored(health, rate_tenths) == FSub(health, rate_tenths * dt_tenths)

\* Debit with the sign of the rate reversed
DebitCredited(health, rate_tenths) ==
  MathMax(0, FAdd(health, rate_tenths * dt_tenths))

\* health - rate * dt_seconds floored at 0; rate in tenths of %/s
Debit(health, rate_tenths) ==
  MathMax(0, FSub(health, rate_tenths * dt_tenths))

\* suction lost only when the tank is empty
suction_head_ok_Empty(ps) == FGt(ps.level_feed_tank, 0)

suction_head_ok(ps) == FGt(ps.level_feed_tank, LevelUnit \div 5)

\* a well that flows through the open valve whether or not the pumps run
target_Q_well_Artesian(c) ==
  IF c.valve_101_open THEN WELL_FLOW_RATE * Micro ELSE 0

target_Q_well(c) ==
  IF c.wellfield_on /\ c.valve_101_open THEN WELL_FLOW_RATE * Micro ELSE 0

\* wellfield pressure without the deadhead spike
target_P_well_NoDeadhead(c) == IF c.wellfield_on THEN 3 * Micro ELSE 0

target_P_well(c) ==
  IF c.wellfield_on
    THEN IF c.valve_101_open THEN 3 * Micro ELSE 12 * Micro
    ELSE 0

\* P-201 debited whenever it runs, suction or not
pump_feed_health_next_Always(ps, c) ==
  IF c.ro_feed_pump_on THEN Debit(ps.pump_feed_health, 5) ELSE ps.pump_feed_health

\* P-201 cavitation damage
pump_feed_health_next(ps, c) ==
  IF c.ro_feed_pump_on /\ ~suction_head_ok(ps)
    THEN Debit(ps.pump_feed_health, 5)
    ELSE ps.pump_feed_health

\* P-101 deadhead damage
pump_well_health_next(ps, c) ==
  IF c.wellfield_on /\ ~c.valve_101_open
    THEN Debit(ps.pump_well_health, 3)
    ELSE ps.pump_well_health

\* P-401 damage with the deadhead debit only when there is no cavitation
pump_dist_health_next_Exclusive(ps, c) ==
  IF c.dist_pump_on /\ FLt(ps.level_clearwell, LevelUnit \div 5)
    THEN Debit(ps.pump_dist_health, 5)
    ELSE IF c.dist_pump_on /\ ~c.valve_401_open
           THEN Debit(ps.pump_dist_health, 3)
           ELSE ps.pump_dist_health

\* P-401 cavitation and deadhead damage
pump_dist_health_next(ps, c) ==
  LET afterCav == IF c.dist_pump_on /\ FLt(ps.level_clearwell, LevelUnit \div 5)
                    THEN Debit(ps.pump_dist_health, 5)
                    ELSE ps.pump_dist_health
  IN IF c.dist_pump_on /\ ~c.valve_401_open THEN Debit(afterCav, 3) ELSE afterCav

\* pump_efficiency = pump_feed_health / 100.0, read after the cavitation debit
pump_efficiency(ps, c) ==
  FScale(pump_feed_health_next(ps, c), Micro \div (100 * HealthUnit), 1)

\* feed target at the full rate whatever the health of P-201
target_Q_feed_FullRate(ps, c) ==
  IF c.ro_feed_pump_on /\ suction_head_ok(ps) /\ c.valve_201_open
     /\ c.valve_202_open /\ c.valve_203_open
    THEN RO_FEED_RATE * Micro
    ELSE 0

target_Q_feed(ps, c) ==
  IF c.ro_feed_pump_on /\ suction_head_ok(ps) /\ c.valve_201_open
     /\ c.valve_202_open /\ c.valve_203_open
    THEN FScale(pump_efficiency(ps, c), RO_FEED_RATE, 1)
    ELSE 0

\* target_P_feed without the deadhead multipliers
target_P_feed_NoSpike(ps, c) ==
  IF c.ro_feed_pump_on /\ suction_head_ok(ps)
    THEN IF c.valve_201_open /\ c.valve_202_open /\ c.valve_203_open
           THEN 12 * Micro
           ELSE MAX_FEED_PRESSURE * Micro
    ELSE 0

target_P_feed(ps, c) ==
  IF c.ro_feed_pump_on /\ suction_head_ok(ps)
    THEN IF c.valve_201_open
           THEN IF c.valve_202_open /\ c.valve_203_open
                  THEN 12 * Micro
                  ELSE MAX_FEED_PRESSURE * 2 * Micro
           ELSE (MAX_FEED_PRESSURE * 22 * Micro) \div 10
    ELSE 0

\* distribution target scaled by the health of P-401
target_Q_dist_Worn(ps, c) ==
  IF c.dist_pump_on /\ FGt(ps.level_clearwell, LevelUnit \div 10) /\ c.valve_401_open
    THEN (MathMin(c.Q_out_sp, DIST_PUMP_CAPACITY * Micro) \div (100 * HealthUnit))
           * ps.pump_dist_health
    ELSE 0

\* distribution target that follows the setpoint past the pump capacity
target_Q_dist_Uncapped(ps, c) ==
  IF c.dist_pump_on /\ FGt(ps.level_clearwell, LevelUnit \div 10) /\ c.valve_401_open
    THEN c.Q_out_sp
    ELSE 0

target_Q_dist(ps, c) ==
  IF c.dist_pump_on /\ FGt(ps.level_clearwell, LevelUnit \div 10) /\ c.valve_401_open
    THEN MathMin(c.Q_out_sp, DIST_PUMP_CAPACITY * Micro)
    ELSE 0

\* distribution pressure built up whatever the clearwell level
target_P_dist_DryRun(ps, c) ==
  IF c.dist_pump_on
    THEN IF c.valve_401_open THEN 4 * Micro ELSE 15 * Micro
    ELSE 0

target_P_dist(ps, c) ==
  IF c.dist_pump_on /\ FGt(ps.level_clearwell, LevelUnit \div 10)
    THEN IF c.valve_401_open THEN 4 * Micro ELSE 15 * Micro
    ELSE 0

\* a flow that takes its target at once
RampFlow_Jump(x, target) == target

\* x += (target - x) * RAMP_RATE
RampFlow(x, target) == FAdd(x, FScale(FSub(target, x), 1, RAMP_RATE_DEN))
\* a pressure that swings past its target by half of the distance
RampPressure_Overshoot(x, target) == FAdd(x, FScale(FSub(target, x), 3, 2))

\* pressures ramped at RAMP_RATE like the flows
RampPressure_Slow(x, target) == FAdd(x, FScale(FSub(target, x), 1, RAMP_RATE_DEN))

\* x += (target - x) * 0.5
RampPressure(x, target) == FAdd(x, FScale(FSub(target, x), 1, 2))

PipeDebit(health, pressure, limit, rate_tenths) ==
  IF FGt(pressure, limit) THEN Debit(health, rate_tenths) ELSE health

\* chlorine diluted as if water always flowed
current_Cl_NoStatic(c, Q_feed) ==
  IF c.cl_pump_on THEN MathMax(0, FScale(c.Cl_dose, 9, 10)) ELSE 0

current_Cl(c, Q_feed) ==
  IF c.cl_pump_on
    THEN IF FGt(Q_feed, 5 * Micro)
           THEN MathMax(0, FScale(c.Cl_dose, 9, 10))
           ELSE IF FGt(c.Cl_dose, 0) THEN 50 * Micro ELSE 0
    ELSE 0

\* chlorine that stays in the water once the dosing pump is off
Cl_true_next_Persistent(ps, c, Q_feed) ==
  IF c.cl_pump_on
    THEN FAdd(ps.Cl_true, FScale(FSub(current_Cl(c, Q_feed), ps.Cl_true), 1, 10))
    ELSE ps.Cl_true

Cl_true_next(ps, c, Q_feed) ==
  FAdd(ps.Cl_true, FScale(FSub(current_Cl(c, Q_feed), ps.Cl_true), 1, 10))

\* membrane damage without the chemical attack
membrane_health_next_PressureOnly(health, Cl_true, Q_feed, pressure_feed) ==
  IF FGt(pressure_feed, 20 * Micro) THEN Debit(health, 10) ELSE health

\* chemical attack only while the published feed flow is not snapped to 0
membrane_health_next_Published(health, Cl_true, Q_feed, pressure_feed) ==
  LET afterCl == IF FGt(Cl_true, MEMBRANE_CHLORINE_LIMIT) /\ FGt(Q_feed, 1 * Micro)
                   THEN Debit(health, 2)
                   ELSE health
  IN IF FGt(pressure_feed, 20 * Micro) THEN Debit(afterCl, 10) ELSE afterCl

membrane_health_next(health, Cl_true, Q_feed, pressure_feed) ==
  LET afterCl == IF FGt(Cl_true, MEMBRANE_CHLORINE_LIMIT) /\ FGt(Q_feed, 0)
                   THEN Debit(health, 2)
                   ELSE health
  IN IF FGt(pressure_feed, 20 * Micro) THEN Debit(afterCl, 10) ELSE afterCl

\* level integration without the overflow clamp
LevelStep_NoCap(level, Q_in, Q_out, area, top) ==
  LET raw == FAdd(level, FScale(FSub(Q_in, Q_out), dt_tenths, 360 * area))
  IN IF FLt(raw, 0) THEN 0 ELSE raw

\* level += (Q_in - Q_out) * (dt_seconds / 3600) / area, then the two clamps
LevelStep(level, Q_in, Q_out, area, top) ==
  LET raw == FAdd(level, FScale(FSub(Q_in, Q_out), dt_tenths, 360 * area))
      capped == IF FGt(raw, top) THEN top ELSE raw
  IN IF FLt(capped, 0) THEN 0 ELSE capped

\* Q_perm_actual = Q_feed * ro_recovery, ro_recovery = 0.75
Q_perm_actual(Q_feed) == FScale(Q_feed, 3, 4)

\* the integrated state after one call of simulatePhysics(c, 0.1)
PhysicsStep(ps, c) ==
  LET Qw == RampFlow(ps.Q_wellfield, target_Q_well(c))
      Qf == RampFlow(ps.Q_feed, target_Q_feed(ps, c))
      Qo == RampFlow(ps.Q_out, target_Q_dist(ps, c))
      Pw == RampPressure(ps.pressure_well, target_P_well(c))
      Pf == RampPressure(ps.pressure_feed, target_P_feed(ps, c))
      Pd == RampPressure(ps.pressure_dist, target_P_dist(ps, c))
      Cl == Cl_true_next(ps, c, Qf)
  IN [ps EXCEPT
       !.pump_feed_health = pump_feed_health_next(ps, c),
       !.pump_well_health = pump_well_health_next(ps, c),
       !.pump_dist_health = pump_dist_health_next(ps, c),
       !.Q_wellfield = Qw,
       !.Q_feed = Qf,
       !.Q_out = Qo,
       !.pressure_well = Pw,
       !.pressure_feed = Pf,
       !.pressure_dist = Pd,
       !.pipe_well_health = PipeDebit(ps.pipe_well_health, Pw, 10 * Micro, 2),
       !.pipe_feed_health = PipeDebit(ps.pipe_feed_health, Pf, 20 * Micro, 5),
       !.pipe_dist_health = PipeDebit(ps.pipe_dist_health, Pd, 12 * Micro, 3),
       !.Cl_true = Cl,
       !.membrane_health = membrane_health_next(ps.membrane_health, Cl, Qf, Pf),
       !.level_feed_tank =
          LevelStep(ps.level_feed_tank, Qw, Qf, TANK_AREA_FEED, 5 * LevelUnit),
       !.level_clearwell =
          LevelStep(ps.level_clearwell, Q_perm_actual(Qf), Qo,
                    TANK_AREA_CLEARWELL, 6 * LevelUnit)]

(* ---------------------------------------------------------------------- *)
(* simulatePhysics: the returned SimulationState                          *)
(* ---------------------------------------------------------------------- *)
\* dP_ro without the rupture collapse
dP_ro_NoRupture(ps) ==
  IF FGt(ps.Q_feed, 1 * Micro)
    THEN FAdd(Micro \div 2, FScale(ps.Q_feed, 3, 2 * RO_FEED_RATE))
    ELSE 0

\* dP_ro before jitter
dP_ro(ps) ==
  IF FGt(ps.Q_feed, 1 * Micro)
    THEN LET base == FAdd(Micro \div 2, FScale(ps.Q_feed, 3, 2 * RO_FEED_RATE))
         IN IF FLt(ps.membrane_health, 30 * HealthUnit) THEN FScale(base, 1, 5) ELSE base
    ELSE 0

\* rejection_rate = 0.98 * (membrane_health / 100.0), in 10^-6
rejection_rate(ps) == FScale(ps.membrane_health, 98, 1)

\* pH_true = 7.0 + pH_adjustment
pH_true(c) ==
  FAdd(7 * Micro, IF c.naoh_pump_on THEN FScale(c.NaOH_dose, 15, 100) ELSE 0)

\* the values simulatePhysics holds just before it adds sensor noise:
\* the integrated state ps after the tick and the locals derived from it
Readout(ps, c) ==
  [valid |-> TRUE,
   Q_wellfield |-> ps.Q_wellfield, Q_feed |-> ps.Q_feed, Q_out |-> ps.Q_out,
   Q_perm_actual |-> Q_perm_actual(ps.Q_feed),
   level_feed_tank |-> ps.level_feed_tank, level_clearwell |-> ps.level_clearwell,
   rejection_rate |-> rejection_rate(ps),
   pH_true |-> pH_true(c), Cl_true |-> ps.Cl_true,
   pressure_well |-> ps.pressure_well, pressure_feed |-> ps.pressure_feed,
   pressure_dist |-> ps.pressure_dist, dP_ro |-> dP_ro(ps),
   membrane_health |-> ps.membrane_health, pump_well_health |-> ps.pump_well_health,
   pump_feed_health |-> ps.pump_feed_health, pump_dist_health |-> ps.pump_dist_health,
   pipe_well_health |-> ps.pipe_well_health, pipe_feed_health |-> ps.pipe_feed_health,
   pipe_dist_health |-> ps.pipe_dist_health]

\* no SimulationState has been returned yet
NoReadout == [Readout(InitialPhysics, InitialControls) EXCEPT !.valid = FALSE]

\* Math.random() is in [0, 1): the draws the model takes, in 10^-6
RandomDraws == {0, Micro \div 2, Micro - 1}
\* Math.sin(Date.now() / 10000) * 20, in whole uS/cm
ClockDraws == {0 - 20, 0, 20}

\* noise(mag) = (Math.random() - 0.5) * mag, mag = mag_num / mag_den, r the draw
noise(mag_num, mag_den, r) == RoundDiv((r - (Micro \div 2)) * mag_num, mag_den)

\* x > threshold ? x + noise(mag) : 0
Snapped(x, threshold, mag_num, mag_den, r) ==
  IF FGt(x, threshold) THEN FAdd(x, noise(mag_num, mag_den, r)) ELSE 0

Q_brine_actual(ro) == FSub(ro.Q_feed, ro.Q_perm_actual)

\* TDS_feed and TDS_perm before jitter, in 10^-3 uS/cm, s the clock term
TDS_feed_now(s) == (1250 + s) * 1000
TDS_perm_now(ro, s) ==
  IF IsNaN(ro.rejection_rate) THEN NaN
  ELSE RoundDiv((1250 + s) * (Micro - ro.rejection_rate), 1000)

\* the object simulatePhysics returns, for readout ro, one random draw d[field]
\* per noise() call and the clock term d.clock
SimulationState(ro, d) ==
  [Q_wellfield |-> Snapped(ro.Q_wellfield, 1 * Micro, 2, 1, d.Q_wellfield),
   Q_feed |-> Snapped(ro.Q_feed, 1 * Micro, 2, 1, d.Q_feed),
   Q_perm |-> Snapped(ro.Q_perm_actual, Micro \div 10, 1, 1, d.Q_perm),
   Q_brine |-> Snapped(Q_brine_actual(ro), Micro \div 10, 1, 1, d.Q_brine),
   Q_out |-> Snapped(ro.Q_out, 1 * Micro, 1, 1, d.Q_out),
   level_feed_tank |-> ro.level_feed_tank,
   level_clearwell |-> ro.level_clearwell,
   V_clearwell |-> FScale(ro.level_clearwell, 2, 5),
   TDS_feed |-> TDS_feed_now(d.clock) + noise(5, 1000, d.TDS_feed),
   TDS_perm |-> FAdd(TDS_perm_now(ro, d.clock), noise(2, 1000, d.TDS_perm)),
   pH_true |-> FAdd(ro.pH_true, noise(1, 20, d.pH_true)),
   Cl_true |-> Snapped(ro.Cl_true, Micro \div 20, 1, 100, d.Cl_true),
   H2S_feed |-> 25 * (Micro \div 10),
   H2S_out |-> 0,
   pressure_well |-> FAdd(ro.pressure_well, noise(1, 10, d.pressure_well)),
   dP_ro_true |-> FAdd(ro.dP_ro, noise(1, 50, d.dP_ro_true)),
   pressure_feed |-> FAdd(ro.pressure_feed, noise(1, 10, d.pressure_feed)),
   pressure_dist |-> FAdd(ro.pressure_dist, noise(1, 10, d.pressure_dist)),
   membrane_health |-> ro.membrane_health, pump_well_health |-> ro.pump_well_health,
   pump_feed_health |-> ro.pump_feed_health, pump_dist_health |-> ro.pump_dist_health,
   pipe_well_health |-> ro.pipe_well_health, pipe_feed_health |-> ro.pipe_feed_health,
   pipe_dist_health |-> ro.pipe_dist_health]

NoiseSites ==
  {"Q_wellfield", "Q_feed", "Q_perm", "Q_brine", "Q_out", "TDS_feed", "TDS_perm",
   "pH_true", "Cl_true", "pressure_well", "dP_ro_true", "pressure_feed",
   "pressure_dist"}

\* the draw vector in which every noise() call draws r, except site, which draws q
DrawsAt(r, site, q, s) ==
  [f \in NoiseSites \cup {"clock"} |->
     IF f = "clock" THEN s ELSE IF f = site THEN q ELSE r]

\* the draw vectors the model takes for one call: the lowest draw at every
\* noise() call with the lowest clock term, and the highest with the highest
LowDraws == DrawsAt(0, "clock", 0, 0 - 20)
HighDraws == DrawsAt(Micro - 1, "clock", 0, 20)
TickDraws == {LowDraws, HighDraws}

\* one call simulatePhysics(c, 0.1) with the draws d: the object it returns
TickReturn(ps, c, d) == SimulationState(Readout(PhysicsStep(ps, c), c), d)

\* a tick that keeps the jittered feed flow as its integrated Q_feed
TickState_Noisy(ps, c, d) ==
  [PhysicsStep(ps, c) EXCEPT !.Q_feed = TickReturn(ps, c, d).Q_feed]

\* one call simulatePhysics(c, 0.1) with the draws d: the integrated state it
\* leaves in physicsState; no statement that writes physicsState reads a draw
TickState(ps, c, d) == PhysicsStep(ps, c)

(* ---------------------------------------------------------------------- *)
(* PlantApi.sendControl                                                   *)
(* ---------------------------------------------------------------------- *)
\* a value of type number | boolean
BoolValue(b) == [isBool |-> TRUE, b |-> b, n |-> 0]
NumValue(n) == [isBool |-> FALSE, b |-> FALSE, n |-> n]

\* Number(value)
ToNumber(value) == IF value.isBool THEN (IF value.b THEN 1 * Micro ELSE 0) ELSE value.n

\* value === 1 || value === true
ToBoolean(value) == (~value.isBool /\ value.n = 1 * Micro) \/ (value.isBool /\ value.b)

\* currentControls after sendControl(control, value)
StoreControl(cc, control, value) ==
  IF control \in BooleanControls
    THEN [cc EXCEPT ![control] = ToBoolean(value)]
    ELSE [cc EXCEPT ![control] = ToNumber(value)]

\* currentControls after the sendControl calls ws, made one after the other
\* in one handler
RECURSIVE SendAll(_, _)
SendAll(cc, ws) ==
  IF ws = <<>> THEN cc
  ELSE SendAll(StoreControl(cc, Head(ws).control, Head(ws).value), Tail(ws))

\* App.handleEmergencyStop: sendControl(k, 0) for the ten boolean controls,
\* then for the three setpoints
handleEmergencyStop(cc) ==
  SendAll(cc,
    <<[control |-> "wellfield_on", value |-> NumValue(0)],
      [control |-> "ro_feed_pump_on", value |-> NumValue(0)],
      [control |-> "dist_pump_on", value |-> NumValue(0)],
      [control |-> "valve_101_open", value |-> NumValue(0)],
      [control |-> "valve_201_open", value |-> NumValue(0)],
      [control |-> "valve_202_open", value |-> NumValue(0)],
      [control |-> "valve_203_open", value |-> NumValue(0)],
      [control |-> "valve_401_open", value |-> NumValue(0)],
      [control |-> "naoh_pump_on", value |-> NumValue(0)],
      [control |-> "cl_pump_on", value |-> NumValue(0)],
      [control |-> "NaOH_dose", value |-> NumValue(0)],
      [control |-> "Cl_dose", value |-> NumValue(0)],
      [control |-> "Q_out_sp", value |-> NumValue(0)]>>)

\* a Normal Operation preset that leaves the dosing pumps off
handleReset_NoDosing(cc) ==
  SendAll(cc,
    <<[control |-> "wellfield_on", value |-> NumValue(1 * Micro)],
      [control |-> "ro_feed_pump_on", value |-> NumValue(1 * Micro)],
      [control |-> "dist_pump_on", value |-> NumValue(1 * Micro)],
      [control |-> "valve_101_open", value |-> NumValue(1 * Micro)],
      [control |-> "valve_201_open", value |-> NumValue(1 * Micro)],
      [control |-> "valve_202_open", value |-> NumValue(1 * Micro)],
      [control |-> "valve_203_open", value |-> NumValue(1 * Micro)],
      [control |-> "valve_401_open", value |-> NumValue(1 * Micro)],
      [control |-> "naoh_pump_on", value |-> NumValue(0)],
      [control |-> "cl_pump_on", value |-> NumValue(0)],
      [control |-> "NaOH_dose", value |-> NumValue(5 * Micro)],
      [control |-> "Cl_dose", value |-> NumValue(1 * Micro)],
      [control |-> "Q_out_sp", value |-> NumValue(80 * Micro)]>>)

\* App.handleReset, the Normal Operation preset: sendControl(k, 1) for the ten
\* boolean controls, then the three setpoints
handleReset(cc) ==
  SendAll(cc,
    <<[control |-> "wellfield_on", value |-> NumValue(1 * Micro)],
      [control |-> "ro_feed_pump_on", value |-> NumValue(1 * Micro)],
      [control |-> "dist_pump_on", value |-> NumValue(1 * Micro)],
      [control |-> "valve_101_open", value |-> NumValue(1 * Micro)],
      [control |-> "valve_201_open", value |-> NumValue(1 * Micro)],
      [control |-> "valve_202_open", value |-> NumValue(1 * Micro)],
      [control |-> "valve_203_open", value |-> NumValue(1 * Micro)],
      [control |-> "valve_401_open", value |-> NumValue(1 * Micro)],
      [control |-> "naoh_pump_on", value |-> NumValue(1 * Micro)],
      [control |-> "cl_pump_on", value |-> NumValue(1 * Micro)],
      [control |-> "NaOH_dose", value |-> NumValue(5 * Micro)],
      [control |-> "Cl_dose", value |-> NumValue(1 * Micro)],
      [control |-> "Q_out_sp", value |-> NumValue(80 * Micro)]>>)

\* the values the model passes to sendControl for each control
ControlInputs(control) ==
  IF control \in BooleanControls
    THEN {BoolValue(TRUE), BoolValue(FALSE), NumValue(1 * Micro), NumValue(0),
          NumValue(2 * Micro)}
  ELSE IF control = "NaOH_dose"
    THEN {NumValue(0), NumValue(20 * Micro), NumValue(25 * Micro), NumValue(NaN)}
  ELSE IF control = "Cl_dose"
    THEN {NumValue(0), NumValue(5 * Micro), NumValue(6 * Micro), NumValue(NaN),
          BoolValue(TRUE)}
  ELSE {NumValue(0), NumValue(150 * Micro), NumValue(200 * Micro),
        NumValue(0 - 10 * Micro), NumValue(NaN)}

(* ---------------------------------------------------------------------- *)
(* State                                                                  *)
(* ---------------------------------------------------------------------- *)
VARIABLES
  currentControls,  \* PlantApi.currentControls
  physicsState,     \* mockSimulation.physicsState
  newState,         \* what the last simulatePhysics call returned, before jitter
  prev,             \* physicsState when the last simulatePhysics call began
  ticks,            \* simulatePhysics calls so far
  writes,           \* sendControl calls so far
  op,               \* the last operation
  scenario,         \* the run: "open", or the name of a held-controls scenario
  rangeKept,        \* every numeric setpoint has been in its declared range so far
  cav,              \* when level_feed_tank first fell below 0.2 m: the tick and
                    \* pump_feed_health at that moment (at = -1: not yet)
  resets,           \* resetDamage calls since the last other operation:
                    \* 0, 1, or 2 for two or more
  polls,            \* the interval callbacks started so far, in firing order:
                    \* where each one is and what it sent
  onData,           \* the last payload passed to onData, the callback that
                    \* passed it, what its state was computed from and why
                    \* the backend did not serve it
  backendAvailable, \* PlantApi.backendAvailable
  lastWrite,        \* the control and stored value of the last sendControl
  dP_peak,          \* the highest dP_ro, before jitter, a simulatePhysics call
                    \* has computed so far
  timer,            \* PlantApi.timer: 0 for null, else the id setInterval returned
  intervals,        \* the ids of the intervals the browser will still fire
  statusLog,        \* the last status passed to onStatus and how often each
                    \* status has been passed
  connects          \* connect calls so far

vars ==
  <<currentControls, physicsState, newState, prev, ticks, writes, op, scenario,
    rangeKept, cav, resets, polls, onData, backendAvailable, lastWrite,
    dP_peak, timer, intervals, statusLog, connects>>

connVars == <<timer, intervals, statusLog, connects>>

pollVars == <<polls, onData, backendAvailable, lastWrite, connVars>>

\* the declared ranges of the numeric setpoints (types.ts, ControlPanel.tsx)
SetpointMax(control) ==
  IF control = "NaOH_dose" THEN 20 * Micro
  ELSE IF control = "Cl_dose" THEN 5 * Micro
  ELSE 150 * Micro

InDeclaredRange(control, x) == ~IsNaN(x) /\ 0 <= x /\ x <= SetpointMax(control)

SetpointsInRange(cc) ==
  \A control \in NumericControls : InDeclaredRange(control, cc[control])

\* plant states the program reaches after long runs, used as starting points
\* beside the constructed state
DrainedPhysics ==
  [InitialPhysics EXCEPT
     !.Q_feed = 4, !.Q_out = 4,
     !.level_feed_tank = LevelUnit \div 10,
     !.level_clearwell = 15 * (LevelUnit \div 100),
     !.membrane_health = 4, !.pump_well_health = 1, !.pump_feed_health = 5,
     !.pump_dist_health = 2, !.pipe_well_health = 2, !.pipe_feed_health = 5,
     !.pipe_dist_health = 1]

FullControls ==
  [InitialControls EXCEPT !.wellfield_on = TRUE, !.ro_feed_pump_on = TRUE]

FullPhysics ==
  [InitialPhysics EXCEPT
     !.Q_wellfield = WELL_FLOW_RATE * Micro - 4,
     !.Q_feed = RO_FEED_RATE * Micro - 4,
     !.pressure_well = 3 * Micro, !.pressure_feed = 12 * Micro,
     !.level_feed_tank = 5 * LevelUnit,
     !.level_clearwell = 6 * LevelUnit]

StartStates ==
  {[c |-> InitialControls, ps |-> InitialPhysics],
   [c |-> InitialControls, ps |-> DrainedPhysics],
   [c |-> FullControls, ps |-> FullPhysics]}

NoCavitation == [at |-> 0 - 1, health |-> 0]

\* no payload has been passed to onData yet
NoPayload ==
  [poll |-> 0, state |-> "none", why |-> "none", from |-> InitialControls,
   controls |-> InitialControls]

\* no sendControl call has been made yet
NoWrite == [control |-> "none", stored |-> 0]

\* onStatus has not been called yet
NoStatus == [last |-> "none", connecting |-> 0, connected |-> 0, disconnected |-> 0]

\* onStatus(status)
onStatus(log, status) == [log EXCEPT !.last = status, ![status] = @ + 1]

\* a PlantApi as constructed: timer = null, no interval
Unconnected ==
  /\ timer = 0
  /\ intervals = {}
  /\ statusLog = NoStatus
  /\ connects = 0

\* a PlantApi after the connect call of the App's mount effect
Mounted ==
  /\ timer = 1
  /\ intervals = {1}
  /\ statusLog = onStatus(NoStatus, "connecting")
  /\ connects = 1

InitCommon ==
  /\ newState = NoReadout
  /\ prev = physicsState
  /\ ticks = 0
  /\ writes = 0
  /\ op = "init"
  /\ rangeKept = SetpointsInRange(currentControls)
  /\ cav = NoCavitation
  /\ resets = 0
  /\ polls = <<>>
  /\ onData = NoPayload
  /\ backendAvailable = FALSE
  /\ lastWrite = NoWrite
  /\ dP_peak = 0

Init ==
  /\ \E s \in StartStates : currentControls = s.c /\ physicsState = s.ps
  /\ scenario = "open"
  /\ InitCommon
  /\ Unconnected

(* ---------------------------------------------------------------------- *)
(* Operations                                                             *)
(* ---------------------------------------------------------------------- *)
\* one call simulatePhysics(currentControls, 0.1)
Step ==
  /\ \E d \in TickDraws :
       physicsState' = TickState(physicsState, currentControls, d)
  /\ newState' = Readout(physicsState', currentControls)
  /\ prev' = physicsState
  /\ ticks' = ticks + 1
  /\ op' = "simulatePhysics"
  /\ cav' = IF cav.at < 0 /\ FLt(physicsState'.level_feed_tank, LevelUnit \div 5)
              THEN [at |-> ticks', health |-> physicsState'.pump_feed_health]
              ELSE cav
  /\ resets' = 0
  /\ dP_peak' = IF newState'.dP_ro > dP_peak THEN newState'.dP_ro ELSE dP_peak
  /\ UNCHANGED <<currentControls, writes, scenario, rangeKept>>

simulatePhysics ==
  /\ ticks < MaxTicks
  /\ Step
  /\ UNCHANGED pollVars

\* one call sendControl(control, value)
Store(control, value) ==
  /\ currentControls' = StoreControl(currentControls, control, value)
  /\ writes' = writes + 1
  /\ op' = "sendControl"
  /\ rangeKept' = (rangeKept /\ SetpointsInRange(currentControls'))
  /\ resets' = 0
  /\ UNCHANGED <<physicsState, newState, prev, ticks, scenario, cav, dP_peak>>

sendControl ==
  /\ writes < MaxWrites
  /\ \E control \in BooleanControls \cup NumericControls :
       \E value \in ControlInputs(control) : Store(control, value)
  /\ UNCHANGED pollVars

\* a reset that rebuilds the whole physicsState
ResetHealth_Constructed(ps) == InitialPhysics

\* a repair that gives half of the health back on every call
ResetHealth_Repair(ps) ==
  [f \in DOMAIN ps |->
     IF f \in HealthVars THEN MathMin(100 * HealthUnit, ps[f] + 50 * HealthUnit)
                         ELSE ps[f]]

\* physicsState after resetDamage()
ResetHealth(ps) ==
  [ps EXCEPT
     !.membrane_health = 100 * HealthUnit, !.pump_well_health = 100 * HealthUnit,
     !.pump_feed_health = 100 * HealthUnit, !.pump_dist_health = 100 * HealthUnit,
     !.pipe_well_health = 100 * HealthUnit, !.pipe_feed_health = 100 * HealthUnit,
     !.pipe_dist_health = 100 * HealthUnit]

resetDamage ==
  /\ physicsState' = ResetHealth(physicsState)
  /\ op' = "resetDamage"
  /\ resets' = IF resets < 2 THEN resets + 1 ELSE resets
  /\ UNCHANGED pollVars
  /\ UNCHANGED <<currentControls, newState, prev, ticks, writes, scenario,
                 rangeKept, cav, dP_peak>>

Next == simulatePhysics \/ sendControl \/ resetDamage

Spec == Init /\ [][Next]_vars

(* ---------------------------------------------------------------------- *)
(* Held controls: the controls are set once and every later step is a     *)
(* polling tick that falls back to simulatePhysics(currentControls, 0.1)  *)
(* ---------------------------------------------------------------------- *)
\* S1: coils {1: true, 4: true, 5: false, 6: false}
S1Controls ==
  [InitialControls EXCEPT !.ro_feed_pump_on = TRUE, !.valve_201_open = TRUE,
                          !.valve_202_open = FALSE, !.valve_203_open = FALSE]
\* S2: coils {0: false, 1: true}
S2Controls ==
  [InitialControls EXCEPT !.wellfield_on = FALSE, !.ro_feed_pump_on = TRUE]
\* S3: coils {1, 3, 4, 5, 6, 9: true}, holding register 1 = 50
S3Controls ==
  [InitialControls EXCEPT !.ro_feed_pump_on = TRUE, !.valve_101_open = TRUE,
                          !.valve_201_open = TRUE, !.valve_202_open = TRUE,
                          !.valve_203_open = TRUE, !.cl_pump_on = TRUE,
                          !.Cl_dose = 5 * Micro]

\* S4: coils {0: true, 1: false, 3: true}
S4Controls ==
  [InitialControls EXCEPT !.wellfield_on = TRUE, !.ro_feed_pump_on = FALSE,
                          !.valve_101_open = TRUE]

\* the plant at rest with the feed tank just above the suction limit and worn
\* equipment
RestLowPhysics ==
  [DrainedPhysics EXCEPT !.level_feed_tank = (LevelUnit \div 5) + 1,
                         !.pipe_feed_health = 10, !.membrane_health = 24]

\* RO feed pump started against a closed downstream valve, from rest
DeadheadRuns ==
  {[name |-> "D201", c |-> [InitialControls EXCEPT !.ro_feed_pump_on = TRUE,
                                                   !.valve_201_open = FALSE],
    ps |-> InitialPhysics],
   [name |-> "D202", c |-> [InitialControls EXCEPT !.ro_feed_pump_on = TRUE,
                                                   !.valve_202_open = FALSE],
    ps |-> InitialPhysics],
   [name |-> "D203", c |-> [InitialControls EXCEPT !.ro_feed_pump_on = TRUE,
                                                   !.valve_203_open = FALSE,
                                                   !.wellfield_on = TRUE,
                                                   !.cl_pump_on = TRUE],
    ps |-> InitialPhysics],
   [name |-> "DLow", c |-> S1Controls, ps |-> RestLowPhysics]}

\* the feed tank at 0.1 m, everything else as constructed
LowTankPhysics == [InitialPhysics EXCEPT !.level_feed_tank = LevelUnit \div 10]

\* RO feed pump held on with the feed tank at 0.1 m, wellfield off and on
CavitationRuns ==
  {[name |-> "Cav", c |-> [InitialControls EXCEPT !.ro_feed_pump_on = TRUE],
    ps |-> LowTankPhysics],
   [name |-> "CavFill", c |-> [InitialControls EXCEPT !.ro_feed_pump_on = TRUE,
                                                      !.wellfield_on = TRUE],
    ps |-> LowTankPhysics]}

\* chlorine dosing pump started with no water flowing
StaticDosingRuns ==
  {[name |-> "ClStatic", c |-> [InitialControls EXCEPT !.cl_pump_on = TRUE],
    ps |-> InitialPhysics]}

\* the running plant with a nearly empty clearwell, then: RO block closed at
\* valve 202 with the chlorine pump on, distribution pump on against a closed
\* valve 401
MultiDamageRuns ==
  {[name |-> "Multi",
    c |-> [InitialControls EXCEPT !.ro_feed_pump_on = TRUE, !.valve_202_open = FALSE,
                                  !.cl_pump_on = TRUE, !.dist_pump_on = TRUE,
                                  !.valve_401_open = FALSE],
    ps |-> [InitialPhysics EXCEPT !.Q_feed = RO_FEED_RATE * Micro - 4,
                                  !.pressure_feed = 12 * Micro,
                                  !.level_clearwell = 15 * (LevelUnit \div 100)]]}

\* the plant as constructed, with the controls as constructed
RestRuns ==
  {[name |-> "Rest", c |-> InitialControls, ps |-> InitialPhysics]}

\* CYBER_PHA 4.1 from normal running: valves 202 and 203 closed while the
\* wellfield and the RO feed pump run at full flow
OverpressureRuns ==
  {[name |-> "S1Run",
    c |-> [FullControls EXCEPT !.valve_202_open = FALSE, !.valve_203_open = FALSE],
    ps |-> FullPhysics]}

\* CYBER_PHA 7.2: distribution pump on with the flow setpoint above the pump
\* capacity, inside and outside the declared range of Q_out_sp
ExcessDemandRuns ==
  {[name |-> "Demand200",
    c |-> [InitialControls EXCEPT !.dist_pump_on = TRUE, !.Q_out_sp = 200 * Micro],
    ps |-> InitialPhysics],
   [name |-> "Demand150",
    c |-> [InitialControls EXCEPT !.dist_pump_on = TRUE, !.Q_out_sp = 150 * Micro],
    ps |-> InitialPhysics]}

\* the running plant with the chlorine pump on and the RO feed pump switched
\* off: the feed flow coasts down while the dosing goes on
ChlorineCoastRuns ==
  {[name |-> "ClCoast",
    c |-> [FullControls EXCEPT !.ro_feed_pump_on = FALSE, !.cl_pump_on = TRUE],
    ps |-> FullPhysics]}

\* every damage condition at its worst with in-range setpoints: the three
\* pumps deadheaded at their shutoff pressures, the feed flow coasted down to
\* a trickle and the static water chlorinated to 50 mg/L
WorstPhysics ==
  [InitialPhysics EXCEPT
     !.Q_feed = 4,
     !.pressure_well = 12 * Micro,
     !.pressure_feed = (MAX_FEED_PRESSURE * 22 * Micro) \div 10,
     !.pressure_dist = 15 * Micro,
     !.Cl_true = 50 * Micro - 4,
     !.membrane_health = 50 * HealthUnit, !.pump_well_health = 50 * HealthUnit,
     !.pump_dist_health = 50 * HealthUnit, !.pipe_well_health = 50 * HealthUnit,
     !.pipe_feed_health = 50 * HealthUnit, !.pipe_dist_health = 50 * HealthUnit]

\* the plant running chlorinated at full flow
DosedPhysics == [FullPhysics EXCEPT !.Cl_true = 45 * (Micro \div 10)]

\* E-Stop pressed in the worst state, and on the dosed running plant
EStopRuns ==
  {[name |-> "EStop",
    c |-> handleEmergencyStop([S3Controls EXCEPT !.wellfield_on = TRUE,
                                                 !.valve_101_open = FALSE,
                                                 !.valve_201_open = FALSE,
                                                 !.dist_pump_on = TRUE,
                                                 !.valve_401_open = FALSE]),
    ps |-> WorstPhysics],
   [name |-> "EStopRun", c |-> handleEmergencyStop(S3Controls),
    ps |-> DosedPhysics]}

\* the Normal Operation preset pressed on the plant as constructed
NormalOperationRuns ==
  {[name |-> "Normal", c |-> handleReset(InitialControls), ps |-> InitialPhysics]}

HeldRuns ==
  {[name |-> "S1", c |-> S1Controls, ps |-> InitialPhysics],
   [name |-> "S2", c |-> S2Controls, ps |-> InitialPhysics],
   [name |-> "S3", c |-> S3Controls, ps |-> InitialPhysics],
   [name |-> "S4", c |-> S4Controls, ps |-> InitialPhysics]}
  \cup DeadheadRuns \cup CavitationRuns \cup StaticDosingRuns
  \cup MultiDamageRuns \cup RestRuns \cup OverpressureRuns
  \cup ExcessDemandRuns \cup ChlorineCoastRuns \cup EStopRuns
  \cup NormalOperationRuns

InitHeld ==
  /\ \E r \in HeldRuns :
       currentControls = r.c /\ physicsState = r.ps /\ scenario = r.name
  /\ InitCommon
  /\ Unconnected

heldTick ==
  /\ ticks < MaxHeldTicks
  /\ Step
  /\ UNCHANGED pollVars

SpecHeld == InitHeld /\ [][heldTick]_vars

(* ---------------------------------------------------------------------- *)
(* The polling loop of PlantApi.connect: every 100 ms the interval starts  *)
(* an async callback that posts the controls to /sync and awaits the       *)
(* answer; callbacks overlap, and sendControl runs between their awaits    *)
(* ---------------------------------------------------------------------- *)
\* how the awaited fetch can fail: rejected, aborted by the 200 ms timeout, or
\* answered with a status that is not ok
FetchFailures == {"networkError", "timeout", "nonOk"}
\* how the awaited response.json() can fail
JsonFailures == {"unparsable", "timeout"}

\* a request body built from the controls as constructed
RequestBody_Stale(cc) == InitialControls

\* JSON.stringify({ controls: this.currentControls })
RequestBody(cc) == cc

\* a callback that gives up on a timeout without calling onData
Delivered_DropOnTimeout(poll, state, why) ==
  [poll EXCEPT !.pc = "done", !.state = state,
               !.deliveries = IF why = "timeout" THEN @ ELSE @ + 1]

\* the callback after its onData call
Delivered(poll, state, why) ==
  [poll EXCEPT !.pc = "done", !.state = state, !.deliveries = @ + 1]

\* a live interval fires: its callback runs up to await fetch(...)
pollFire ==
  /\ Len(polls) < MaxPolls
  /\ \E i \in intervals :
       polls' = Append(polls, [pc |-> "fetch", body |-> RequestBody(currentControls),
                               state |-> "none", deliveries |-> 0,
                               interval |-> i])
  /\ op' = "pollFire"
  /\ resets' = 0
  /\ UNCHANGED <<currentControls, physicsState, newState, prev, ticks, writes,
                 scenario, rangeKept, cav, onData, backendAvailable, lastWrite,
                 dP_peak, connVars>>

\* fetch resolves with response.ok: the callback runs up to await response.json()
fetchOk ==
  \E p \in DOMAIN polls :
    /\ polls[p].pc = "fetch"
    /\ polls' = [polls EXCEPT ![p].pc = "json"]
    /\ op' = "fetchOk"
    /\ resets' = 0
    /\ UNCHANGED <<currentControls, physicsState, newState, prev, ticks, writes,
                   scenario, rangeKept, cav, onData, backendAvailable, lastWrite,
                   dP_peak, connVars>>

\* a status that tells the fallback from the backend
StatusOf_Offline(available) == IF available THEN "connected" ELSE "disconnected"

\* this.backendAvailable ? 'connected' : 'connected'
StatusOf(available) == "connected"

\* the catch block and the rest of the callback: simulatePhysics on the
\* controls of this moment, then onStatus and onData
Fallback(p, why) ==
  /\ backendAvailable' = FALSE
  /\ Step
  /\ statusLog' = onStatus(statusLog, StatusOf(backendAvailable'))
  /\ onData' = [poll |-> p, state |-> "local", why |-> why,
                from |-> currentControls, controls |-> currentControls]
  /\ polls' = [polls EXCEPT ![p] = Delivered(polls[p], "local", why)]
  /\ UNCHANGED <<lastWrite, timer, intervals, connects>>

\* fetch rejects, times out or answers not ok
fetchFail ==
  \E p \in DOMAIN polls :
    /\ polls[p].pc = "fetch"
    /\ \E why \in FetchFailures : Fallback(p, why)

\* a successful poll that also steps the local simulation
jsonOk_Synced ==
  \E p \in DOMAIN polls :
    /\ polls[p].pc = "json"
    /\ backendAvailable' = TRUE
    /\ Step
    /\ onData' = [poll |-> p, state |-> "backend", why |-> "none",
                  from |-> polls[p].body, controls |-> currentControls]
    /\ polls' = [polls EXCEPT ![p] = Delivered(polls[p], "backend", "none")]
    /\ statusLog' = onStatus(statusLog, StatusOf(backendAvailable'))
    /\ UNCHANGED <<lastWrite, timer, intervals, connects>>

\* response.json() resolves: newState = data.state, then onStatus and onData
jsonOk ==
  \E p \in DOMAIN polls :
    /\ polls[p].pc = "json"
    /\ backendAvailable' = TRUE
    /\ statusLog' = onStatus(statusLog, StatusOf(backendAvailable'))
    /\ onData' = [poll |-> p, state |-> "backend", why |-> "none",
                  from |-> polls[p].body, controls |-> currentControls]
    /\ polls' = [polls EXCEPT ![p] = Delivered(polls[p], "backend", "none")]
    /\ op' = "jsonOk"
    /\ resets' = 0
    /\ UNCHANGED <<currentControls, physicsState, newState, prev, ticks, writes,
                   scenario, rangeKept, cav, lastWrite, dP_peak, timer,
                   intervals, connects>>

\* response.json() rejects or is aborted by the timeout
jsonFail ==
  \E p \in DOMAIN polls :
    /\ polls[p].pc = "json"
    /\ \E why \in JsonFailures : Fallback(p, why)

\* the sendControl calls the model makes while the loop runs
PollWrites ==
  {[control |-> "wellfield_on", value |-> BoolValue(TRUE)],
   [control |-> "ro_feed_pump_on", value |-> NumValue(1 * Micro)],
   [control |-> "valve_201_open", value |-> NumValue(0)],
   [control |-> "Q_out_sp", value |-> NumValue(100 * Micro)]}

\* sendControl called between two steps of the polling callbacks
pollSendControl ==
  /\ writes < MaxPollWrites
  /\ \E w \in PollWrites :
       /\ Store(w.control, w.value)
       /\ lastWrite' = [control |-> w.control, stored |-> currentControls'[w.control]]
  /\ UNCHANGED <<polls, onData, backendAvailable, connVars>>

InitPoll ==
  /\ currentControls = InitialControls
  /\ physicsState = InitialPhysics
  /\ scenario = "poll"
  /\ InitCommon
  /\ Mounted

NextPoll ==
  pollFire \/ fetchOk \/ fetchFail \/ jsonOk \/ jsonFail \/ pollSendControl

SpecPoll == InitPoll /\ [][NextPoll]_vars

(* ---------------------------------------------------------------------- *)
(* connect and disconnect around the polling loop: the App connects when   *)
(* it mounts and disconnects when it unmounts, while callbacks of earlier  *)
(* firings may still await their responses                                 *)
(* ---------------------------------------------------------------------- *)
\* a clearInterval that leaves the interval running
ClearInterval_Forget(live, t) == live

\* if (this.timer) clearInterval(this.timer)
ClearInterval(live, t) == IF t # 0 THEN live \ {t} ELSE live

\* connect(onData, onStatus): clear the previous interval, report
\* 'connecting', start a new interval; setInterval returns a fresh id
connect ==
  /\ connects < MaxConnects
  /\ connects' = connects + 1
  /\ statusLog' = onStatus(statusLog, "connecting")
  /\ timer' = connects'
  /\ intervals' = ClearInterval(intervals, timer) \cup {timer'}
  /\ op' = "connect"
  /\ resets' = 0
  /\ UNCHANGED <<currentControls, physicsState, newState, prev, ticks, writes,
                 scenario, rangeKept, cav, dP_peak, polls, onData,
                 backendAvailable, lastWrite>>

\* disconnect(): clear the interval and forget its id
disconnect ==
  /\ intervals' = ClearInterval(intervals, timer)
  /\ timer' = 0
  /\ op' = "disconnect"
  /\ resets' = 0
  /\ UNCHANGED <<currentControls, physicsState, newState, prev, ticks, writes,
                 scenario, rangeKept, cav, dP_peak, polls, onData,
                 backendAvailable, lastWrite, statusLog, connects>>

InitConn ==
  /\ currentControls = InitialControls
  /\ physicsState = InitialPhysics
  /\ scenario = "connect"
  /\ InitCommon
  /\ Unconnected

NextConn ==
  connect \/ disconnect \/ pollFire \/ fetchOk \/ fetchFail \/ jsonOk \/ jsonFail

SpecConn == InitConn /\ [][NextConn]_vars

(* ---------------------------------------------------------------------- *)
(* The tables of simulatePhysics: one call, and the calls that follow it, *)
(* from every combination of the switches and a set of plant states       *)
(* ---------------------------------------------------------------------- *)
\* the boolean controls the targets, ramps and debits read
TableSwitches ==
  {"wellfield_on", "ro_feed_pump_on", "dist_pump_on", "valve_101_open",
   "valve_201_open", "valve_202_open", "valve_203_open", "valve_401_open",
   "cl_pump_on"}

\* every combination of the switches, with Q_out_sp below and above the
\* capacity of the distribution pump
TableControls ==
  {[k \in DOMAIN InitialControls |->
      IF k \in TableSwitches THEN b[k]
      ELSE IF k = "Q_out_sp" THEN q
      ELSE InitialControls[k]] :
     b \in [TableSwitches -> BOOLEAN], q \in {80 * Micro, 150 * Micro}}

\* the running plant after a spell of cavitation and of chlorine: P-201 at
\* half of its health
WornPhysics ==
  [FullPhysics EXCEPT
     !.pump_feed_health = 50 * HealthUnit, !.membrane_health = 60 * HealthUnit,
     !.Q_out = 80 * Micro - 4, !.pressure_dist = 4 * Micro,
     !.level_feed_tank = 5 * (LevelUnit \div 2),
     !.level_clearwell = 3 * LevelUnit]

\* the clearwell drawn down to the level at which distribution stops
DryClearwellPhysics ==
  [InitialPhysics EXCEPT !.Q_out = 4,
                         !.level_clearwell = 995 * (LevelUnit \div 10000)]

TablePhysics ==
  {InitialPhysics, DrainedPhysics, FullPhysics, RestLowPhysics, LowTankPhysics,
   WornPhysics, DryClearwellPhysics}

InitTable ==
  /\ currentControls \in TableControls
  /\ physicsState \in TablePhysics
  /\ scenario = "table"
  /\ InitCommon
  /\ Unconnected

tableTick ==
  /\ ticks < MaxTableTicks
  /\ Step
  /\ UNCHANGED pollVars

SpecTable == InitTable /\ [][tableTick]_vars

(* ---------------------------------------------------------------------- *)
(* Properties                                                             *)
(* ---------------------------------------------------------------------- *)
TicksPerSecond == 10
S1Ticks == 60 * TicksPerSecond
S3Ticks == 8 * 60 * TicksPerSecond
\* |x| <= FlowTolerance counts as 0 m3/h
FlowTolerance == Micro \div 1000

Between(x, lo, hi) == ~IsNaN(x) /\ lo <= x /\ x <= hi
NonNegative(x) == ~IsNaN(x) /\ x >= 0
Max0(x) == IF x < 0 THEN 0 ELSE x

\* C1: after any sequence of ticks under any control values level_feed_tank is
\* in [0, 5] and level_clearwell is in [0, 6], in the integrated state and in
\* the returned state.
C1_LevelsInRange ==
  /\ Between(physicsState.level_feed_tank, 0, 5 * LevelUnit)
  /\ Between(physicsState.level_clearwell, 0, 6 * LevelUnit)
  /\ newState.valid =>
       /\ Between(newState.level_feed_tank, 0, 5 * LevelUnit)
       /\ Between(newState.level_clearwell, 0, 6 * LevelUnit)

\* C2: in every reachable state each of the seven health values lies in
\* [0, 100].
C2_HealthInRange ==
  \A h \in HealthVars : Between(physicsState[h], 0, 100 * HealthUnit)

\* a tick has floored a health value that the debit would have made negative
C2_Witness ==
  /\ op = "simulatePhysics"
  /\ prev.pump_dist_health = 2
  /\ physicsState.pump_dist_health = 0

\* C3: a tick never raises a health value, each applicable debit is rate * dt
\* floored at 0, and apart from resetDamage no operation raises a health value.
C3_TickNeverRaisesHealth ==
  [][ /\ op' # "resetDamage" =>
           \A h \in HealthVars : physicsState'[h] <= physicsState[h]
      /\ op' = "simulatePhysics" =>
           LET c == currentControls
               old == physicsState
               new == physicsState'
               cavFeed == c.ro_feed_pump_on /\ ~FGt(old.level_feed_tank, LevelUnit \div 5)
               deadWell == c.wellfield_on /\ ~c.valve_101_open
               cavDist == c.dist_pump_on /\ FLt(old.level_clearwell, LevelUnit \div 5)
               deadDist == c.dist_pump_on /\ ~c.valve_401_open
               chlorine == FGt(new.Cl_true, Micro \div 10) /\ FGt(new.Q_feed, 0)
               burst == FGt(new.pressure_feed, 20 * Micro)
           IN  /\ new.pump_feed_health =
                    IF cavFeed THEN Max0(old.pump_feed_health - 5)
                               ELSE old.pump_feed_health
               /\ new.pump_well_health =
                    IF deadWell THEN Max0(old.pump_well_health - 3)
                                ELSE old.pump_well_health
               /\ new.pump_dist_health =
                    Max0(Max0(old.pump_dist_health - (IF cavDist THEN 5 ELSE 0))
                         - (IF deadDist THEN 3 ELSE 0))
               /\ new.pipe_well_health =
                    IF FGt(new.pressure_well, 10 * Micro)
                      THEN Max0(old.pipe_well_health - 2) ELSE old.pipe_well_health
               /\ new.pipe_feed_health =
                    IF burst THEN Max0(old.pipe_feed_health - 5)
                             ELSE old.pipe_feed_health
               /\ new.pipe_dist_health =
                    IF FGt(new.pressure_dist, 12 * Micro)
                      THEN Max0(old.pipe_dist_health - 3) ELSE old.pipe_dist_health
               /\ new.membrane_health =
                    Max0(Max0(old.membrane_health - (IF chlorine THEN 2 ELSE 0))
                         - (IF burst THEN 10 ELSE 0))
    ]_vars

\* a tick has debited the well pump by 0.3 * dt
C3_Witness ==
  /\ op = "simulatePhysics"
  /\ prev.pump_well_health = 100 * HealthUnit
  /\ physicsState.pump_well_health = 100 * HealthUnit - 3

\* the returned object under the draw r at every noise() call
Published(r) == SimulationState(newState, DrawsAt(r, "clock", 0, 0))

\* C4: all flows and all pressures are >= 0 in every state returned by
\* simulatePhysics, for every control sequence whose setpoints stay in their
\* declared ranges and every jitter draw.
C4_PublishedNonNegative ==
  (newState.valid /\ rangeKept) =>
    \A r \in RandomDraws :
      LET st == Published(r)
      IN /\ NonNegative(st.Q_wellfield) /\ NonNegative(st.Q_feed)
         /\ NonNegative(st.Q_perm) /\ NonNegative(st.Q_brine)
         /\ NonNegative(st.Q_out)
         /\ NonNegative(st.pressure_well) /\ NonNegative(st.pressure_feed)
         /\ NonNegative(st.pressure_dist) /\ NonNegative(st.dP_ro_true)

\* C5: in every state returned by simulatePhysics Q_perm + Q_brine equals
\* Q_feed to within a small numerical tolerance, for every jitter draw and
\* also when published flows are snapped to 0.
C5_PublishedMassBalance ==
  newState.valid =>
    \A r, q \in RandomDraws :
      LET st == SimulationState(newState, DrawsAt(r, "Q_feed", q, 0))
          diff == FSub(FAdd(st.Q_perm, st.Q_brine), st.Q_feed)
      IN Between(diff, 0 - FlowTolerance, FlowTolerance)

\* C6: after any sequence of sendControl calls the stored setpoints satisfy
\* NaOH_dose in [0, 20], Cl_dose in [0, 5], Q_out_sp in [0, 150], and the
\* boolean controls are stored as booleans.
C6_SetpointsClamped ==
  /\ SetpointsInRange(currentControls)
  /\ \A b \in BooleanControls : currentControls[b] \in BOOLEAN

\* C7 as claimed: S1 held for 600 ticks gives pressure_feed > 20,
\* membrane_health < 40, pipe_feed_health < 70 and Q_feed about 0.
C7_S1_AsClaimed ==
  (scenario = "S1" /\ ticks = S1Ticks) =>
    /\ physicsState.pressure_feed > 20 * Micro
    /\ physicsState.membrane_health < 40 * HealthUnit
    /\ physicsState.pipe_feed_health < 70 * HealthUnit
    /\ Between(physicsState.Q_feed, 0 - FlowTolerance, FlowTolerance)

\* C7 amended: S1 held for 600 ticks gives pressure_feed > 20, Q_feed about 0,
\* membrane_health in [40, 40.2) and pipe_feed_health in [70, 70.1): the first
\* tick only brings pressure_feed to 15 bar, so 599 of the 600 ticks debit.
C7_S1_Amended ==
  (scenario = "S1" /\ ticks = S1Ticks) =>
    /\ physicsState.pressure_feed > 20 * Micro
    /\ physicsState.membrane_health >= 40 * HealthUnit
    /\ physicsState.membrane_health < 40 * HealthUnit + 20
    /\ physicsState.pipe_feed_health >= 70 * HealthUnit
    /\ physicsState.pipe_feed_health < 70 * HealthUnit + 10
    /\ Between(physicsState.Q_feed, 0 - FlowTolerance, FlowTolerance)

\* S1 has run for 60 s and the membrane has been damaged
C7_Witness ==
  /\ scenario = "S1"
  /\ ticks = S1Ticks
  /\ physicsState.membrane_health < 100 * HealthUnit
  /\ physicsState.pipe_feed_health < 100 * HealthUnit

IsDeadheadRun == scenario \in {"S1", "D201", "D202", "D203", "DLow"}

\* C8: from rest, with ro_feed_pump_on held and a downstream valve closed,
\* pressure_feed is above 20 bar after at most 3 ticks; every tick that leaves
\* it above 20 debits pipe_feed_health by 0.5 * dt and membrane_health by
\* 1.0 * dt (floored at 0), and it stays above 20 while suction remains.
C8_DeadheadDamage ==
  [][ IsDeadheadRun =>
        /\ ticks' = 3 => physicsState'.pressure_feed > 20 * Micro
        /\ (physicsState.pressure_feed > 20 * Micro
            /\ physicsState.level_feed_tank > LevelUnit \div 5)
             => physicsState'.pressure_feed > 20 * Micro
        /\ physicsState'.pressure_feed > 20 * Micro =>
             /\ physicsState'.pipe_feed_health =
                  Max0(physicsState.pipe_feed_health - 5)
             /\ physicsState'.membrane_health <=
                  Max0(physicsState.membrane_health - 10)
             /\ physicsState'.membrane_health >=
                  Max0(physicsState.membrane_health - 12)
    ]_vars

\* a deadhead run is past its third tick, above 20 bar, with both debits made
C8_Witness ==
  /\ scenario = "D201"
  /\ ticks = 3
  /\ physicsState.pressure_feed > 20 * Micro
  /\ physicsState.pipe_feed_health = 100 * HealthUnit - 10
  /\ physicsState.membrane_health = 100 * HealthUnit - 20

\* C9: in S2 level_feed_tank falls below 0.2 before the run ends, and in the
\* 300 ticks that follow pump_feed_health drops by at least 14 points.
C9_S2_Cavitation ==
  scenario = "S2" =>
    /\ ticks = MaxHeldTicks => cav.at >= 0
    /\ (cav.at >= 0 /\ ticks = cav.at + 30 * TicksPerSecond) =>
         cav.health - physicsState.pump_feed_health >= 14 * HealthUnit

\* S2 is 30 s past the moment the feed tank fell below 0.2 m
C9_Witness ==
  /\ scenario = "S2"
  /\ cav.at >= 0
  /\ ticks = cav.at + 30 * TicksPerSecond
  /\ physicsState.level_feed_tank < LevelUnit \div 5

\* C10: S3 held for 4800 ticks gives Cl_true >= 0.1, a membrane_health loss of
\* at least 80 points and a pre-jitter TDS_perm above 100 for TDS_feed near 1250.
C10_S3_ChlorineAttack ==
  (scenario = "S3" /\ ticks = S3Ticks) =>
    /\ physicsState.Cl_true >= Micro \div 10
    /\ 100 * HealthUnit - physicsState.membrane_health >= 80 * HealthUnit
    /\ \A s \in ClockDraws : TDS_perm_now(newState, s) > 100 * 1000

\* S3 has run for 8 min with chlorinated water flowing through the membrane
C10_Witness ==
  /\ scenario = "S3"
  /\ ticks = S3Ticks
  /\ physicsState.Q_feed > 5 * Micro
  /\ physicsState.Cl_true > Micro \div 10

\* the integrated variables the feed tank overflow could touch: everything but
\* the wellfield flow and pressure, which ramp, and the feed tank level itself
S4_Rest(ps) ==
  [f \in (DOMAIN ps) \ {"Q_wellfield", "pressure_well", "level_feed_tank"} |-> ps[f]]

\* C11: in S4 level_feed_tank never decreases on a tick, equals exactly 5.0
\* before the run ends and then stays exactly 5.0 on every later tick, and the
\* overflow changes nothing else in the integrated state.
C11_S4_OverflowClamp ==
  [][ scenario = "S4" =>
        /\ physicsState'.level_feed_tank >= physicsState.level_feed_tank
        /\ physicsState'.level_feed_tank <= 5 * LevelUnit
        /\ physicsState.level_feed_tank = 5 * LevelUnit =>
             physicsState'.level_feed_tank = 5 * LevelUnit
        /\ ticks' = MaxHeldTicks => physicsState'.level_feed_tank = 5 * LevelUnit
        /\ S4_Rest(physicsState') = S4_Rest(InitialPhysics)
    ]_vars

\* S4 has filled the tank to the brim and a later tick has discarded the inflow
C11_Witness ==
  /\ scenario = "S4"
  /\ prev.level_feed_tank = 5 * LevelUnit
  /\ physicsState.level_feed_tank = 5 * LevelUnit
  /\ physicsState.Q_wellfield > 100 * Micro

IsCavitationRun == scenario \in {"Cav", "CavFill"}

\* C12 as claimed: with the feed tank at 0.1 m and ro_feed_pump_on held true,
\* every tick debits pump_feed_health by 0.5 * dt (floored at 0), whatever the
\* wellfield and the valves do.
C12_AsClaimed ==
  [][ IsCavitationRun =>
        physicsState'.pump_feed_health = Max0(physicsState.pump_feed_health - 5)
    ]_vars

\* C12 amended: a tick debits pump_feed_health by 0.5 * dt (floored at 0) when
\* ro_feed_pump_on is true and it starts with level_feed_tank <= 0.2, and
\* leaves it unchanged otherwise; with the wellfield refilling the tank the
\* level passes 0.2 and the debit stops while the pump is still on, and with
\* the wellfield off it goes on to 0.
C12_Amended ==
  [][ /\ physicsState'.pump_feed_health =
           IF currentControls.ro_feed_pump_on
              /\ ~FGt(physicsState.level_feed_tank, LevelUnit \div 5)
             THEN Max0(physicsState.pump_feed_health - 5)
             ELSE physicsState.pump_feed_health
      /\ scenario = "Cav" =>
           physicsState'.pump_feed_health = Max0(physicsState.pump_feed_health - 5)
      /\ (scenario = "CavFill" /\ ticks' = MaxHeldTicks) =>
           physicsState'.pump_feed_health > 80 * HealthUnit
    ]_vars

\* the pump still runs, the tank has refilled past 0.2 m and the last tick
\* left the damaged pump's health alone
C12_Witness ==
  /\ scenario = "CavFill"
  /\ op = "simulatePhysics"
  /\ currentControls.ro_feed_pump_on
  /\ prev.level_feed_tank > LevelUnit \div 5
  /\ prev.pump_feed_health < 100 * HealthUnit
  /\ physicsState.pump_feed_health = prev.pump_feed_health

\* the distance to 50 mg/L below which a 10 % step rounds to nothing (the
\* double does the same one ulp below 50)
ClResolution == RAMP_RATE_DEN \div 2

C14_ResetDamageFrame ==
  [][ op' = "resetDamage" =>
        /\ \A h \in HealthVars : physicsState'[h] = 100 * HealthUnit
        /\ \A f \in (DOMAIN physicsState) \ HealthVars :
             physicsState'[f] = physicsState[f]
        /\ DOMAIN physicsState' = DOMAIN physicsState
        /\ currentControls' = currentControls
    ]_vars

\* resetDamage has repaired the worn plant and kept its low levels and flows
C14_Witness ==
  /\ op = "resetDamage"
  /\ resets = 1
  /\ physicsState.level_feed_tank = LevelUnit \div 10
  /\ physicsState.Q_feed = 4
  /\ \A h \in HealthVars : physicsState[h] = 100 * HealthUnit

\* C15: resetDamage is idempotent: a second resetDamage call right after a
\* first leaves the integrated state, the controls and the returned state
\* as the first call left them.
C15_ResetDamageIdempotent ==
  [][ (op = "resetDamage" /\ op' = "resetDamage") =>
        /\ physicsState' = physicsState
        /\ currentControls' = currentControls
        /\ newState' = newState
    ]_vars

\* resetDamage has been called twice in succession on the worn plant
C15_Witness ==
  /\ op = "resetDamage"
  /\ resets = 2
  /\ physicsState.level_clearwell = 15 * (LevelUnit \div 100)
  /\ physicsState.pump_dist_health = 100 * HealthUnit

\* C16: damage conditions that hold in the same tick each debit: with
\* dist_pump_on, level_clearwell < 0.2 and valve_401_open false the tick takes
\* (0.5 + 0.3) * dt from pump_dist_health, and with Cl_true > 0.1, Q_feed > 0
\* and pressure_feed > 20 it takes (0.2 + 1.0) * dt from membrane_health, each
\* floored at 0.
C16_DebitsAddUp ==
  [][ LET c == currentControls
          old == physicsState
          new == physicsState'
      IN op' = "simulatePhysics" =>
         /\ (c.dist_pump_on /\ FLt(old.level_clearwell, LevelUnit \div 5)
              /\ ~c.valve_401_open) =>
               new.pump_dist_health = Max0(old.pump_dist_health - (5 + 3))
         /\ (FGt(new.Cl_true, Micro \div 10) /\ FGt(new.Q_feed, 0)
              /\ FGt(new.pressure_feed, 20 * Micro)) =>
               new.membrane_health = Max0(old.membrane_health - (2 + 10))
    ]_vars

\* one tick has taken 0.08 from pump_dist_health and 0.12 from membrane_health
C16_Witness ==
  /\ scenario = "Multi"
  /\ op = "simulatePhysics"
  /\ currentControls.dist_pump_on /\ ~currentControls.valve_401_open
  /\ prev.level_clearwell < LevelUnit \div 5
  /\ physicsState.Cl_true > Micro \div 10
  /\ physicsState.Q_feed > 0
  /\ physicsState.pressure_feed > 20 * Micro
  /\ prev.pump_dist_health - physicsState.pump_dist_health = 8
  /\ prev.membrane_health - physicsState.membrane_health = 12

\* C17: the integrated state after a tick is a function of the prior integrated
\* state and the controls alone: whatever the jitter draws and the clock term
\* are, the tick leaves the same integrated state, so runs with the same start
\* and control sequence agree after every tick; the clock term is not stored.
C17_TickDeterministic ==
  [][ op' = "simulatePhysics" =>
        /\ \A d \in TickDraws :
             physicsState' = TickState(physicsState, currentControls, d)
        /\ physicsState'.TDS_feed = physicsState.TDS_feed
    ]_vars

\* a tick has returned a feed flow that depends on the draw
C17_Witness ==
  /\ op = "simulatePhysics"
  /\ physicsState.Q_feed > 1 * Micro
  /\ Published(0).Q_feed # Published(Micro - 1).Q_feed
  /\ Published(0).level_feed_tank = physicsState.level_feed_tank
  /\ TickReturn(prev, currentControls, LowDraws).TDS_feed
       # TickReturn(prev, currentControls, HighDraws).TDS_feed

\* C18: every payload passed to onData is a consistent snapshot: its controls
\* field equals the controls its state field was computed from, the /sync
\* request body or the argument of the fallback simulatePhysics call.
C18_ConsistentSnapshot ==
  onData.state # "none" => onData.controls = onData.from

\* C19: a polling tick that fires after a sendControl call has returned uses
\* the value that call stored: the request body of a callback that starts and
\* the controls of a fallback simulatePhysics call both carry the last value
\* written to each control, and nothing but sendControl changes a control.
C19_TickSeesWrite ==
  [][ /\ op' # "sendControl" => currentControls' = currentControls
      /\ lastWrite'.control # "none" =>
           currentControls'[lastWrite'.control] = lastWrite'.stored
      /\ Len(polls') > Len(polls) =>
           /\ polls'[Len(polls')].body = currentControls
           /\ lastWrite.control # "none" =>
                polls'[Len(polls')].body[lastWrite.control] = lastWrite.stored
      /\ \A p \in DOMAIN polls :
           (polls[p].pc # "done" /\ polls'[p].state = "local") =>
             /\ physicsState' = PhysicsStep(physicsState, currentControls)
             /\ onData'.from = currentControls
             /\ lastWrite.control # "none" =>
                  onData'.from[lastWrite.control] = lastWrite.stored
    ]_vars

\* a callback that fired after sendControl('wellfield_on', true) has posted
\* wellfield_on = true and then fallen back to a tick that ran the wellfield
C19_Witness ==
  /\ lastWrite = [control |-> "wellfield_on", stored |-> TRUE]
  /\ Len(polls) = 1
  /\ polls[1].body.wellfield_on
  /\ polls[1].state = "local"
  /\ physicsState.Q_wellfield > 0

\* C20: every polling tick ends in exactly one onData call, with the backend's
\* state when /sync answered ok and its body parsed, and otherwise (network
\* error, status not ok, timeout, unparsable body) with the state returned by
\* simulatePhysics(currentControls, 0.1); no failure leaves a callback without
\* its onData call or keeps the interval from firing again.
C20_FallbackDelivers ==
  [][ /\ Len(polls) < MaxPolls => ENABLED pollFire
      /\ \A p \in DOMAIN polls' :
           /\ polls'[p].pc \in {"fetch", "json", "done"}
           /\ polls'[p].deliveries = (IF polls'[p].pc = "done" THEN 1 ELSE 0)
           /\ polls'[p].pc = "done" <=> polls'[p].state \in {"backend", "local"}
      /\ \A p \in DOMAIN polls :
           (polls[p].pc # "done" /\ polls'[p].pc = "done") =>
             /\ onData'.poll = p
             /\ onData'.state = polls'[p].state
             /\ onData'.state = "backend" <=> onData'.why = "none"
             /\ onData'.state = "local" <=>
                  onData'.why \in FetchFailures \cup JsonFailures
             /\ polls'[p].state = "backend" =>
                  /\ polls[p].pc = "json"
                  /\ UNCHANGED <<physicsState, newState, ticks>>
             /\ polls'[p].state = "local" =>
                  /\ ticks' = ticks + 1
                  /\ physicsState' = PhysicsStep(physicsState, currentControls)
                  /\ newState' = Readout(physicsState', currentControls)
    ]_vars

\* one tick was served by the backend, another timed out and was served by
\* the local simulation
C20_Witness ==
  /\ Len(polls) = 2
  /\ \E p, q \in DOMAIN polls :
       /\ polls[p].state = "backend" /\ polls[p].deliveries = 1
       /\ polls[q].state = "local" /\ polls[q].deliveries = 1
       /\ onData.poll = q /\ onData.why = "timeout"
  /\ ticks = 1

\* C21: with the controls as constructed held (all pumps and dosing pumps off,
\* all five valves open), the integrated state as constructed is a fixed point
\* of the tick: no flow, pressure, level, Cl_true or health value, and no other
\* integrated variable, changes on any tick.
C21_InitialStateAtRest ==
  [][ scenario = "Rest" =>
        /\ \A b \in {"wellfield_on", "ro_feed_pump_on", "dist_pump_on",
                      "naoh_pump_on", "cl_pump_on"} : ~currentControls[b]
        /\ \A v \in {"valve_101_open", "valve_201_open", "valve_202_open",
                      "valve_203_open", "valve_401_open"} : currentControls[v]
        /\ physicsState.level_feed_tank = 5 * (LevelUnit \div 2)
        /\ physicsState.level_clearwell = 3 * LevelUnit
        /\ \A h \in HealthVars : physicsState[h] = 100 * HealthUnit
        /\ \A f \in {"Q_wellfield", "Q_feed", "Q_out", "pressure_well",
                      "pressure_feed", "pressure_dist", "Cl_true"} :
             physicsState[f] = 0
        /\ physicsState' = physicsState
    ]_vars

\* the plant as constructed has been ticked for a minute and is as constructed
C21_Witness ==
  /\ scenario = "Rest"
  /\ op = "simulatePhysics"
  /\ ticks = S1Ticks
  /\ prev = InitialPhysics
  /\ physicsState = InitialPhysics

\* C22: the tick recovers from non-finite values: when a NaN reaches it through
\* a control, the affected integrated variables are put back to their last
\* finite value, so every integrated variable is finite in every reachable
\* state.
C22_IntegratedFinite ==
  \A f \in DOMAIN physicsState : ~IsNaN(physicsState[f])

IsOverpressureRun == scenario \in {"S1", "S1Run"}

\* C23: during the RO overpressure attack (ro_feed_pump_on with valve_202_open
\* and valve_203_open both false, held from rest or from normal running)
\* dP_ro rises above 3.5 bar, the threshold of the PDT-201 alarm, within the
\* two minutes the attack takes to destroy the membrane.
C23_OverpressureIndicator ==
  (IsOverpressureRun /\ ticks = 2 * S1Ticks) => dP_peak > 35 * (Micro \div 10)

IsExcessDemandRun == scenario \in {"Demand200", "Demand150"}

\* C24: the distribution flow is capped at the pump capacity where the physics
\* uses the setpoint: for a non-negative Q_out_sp, also above 120 and above
\* 150, integrated Q_out never exceeds 120 m3/h; with the setpoint held above
\* 120 it ramps toward 120 and ends within the resolution of the numbers of it.
C24_FlowCappedAtCapacity ==
  [][ LET c == currentControls
          cap == DIST_PUMP_CAPACITY * Micro
      IN (op' = "simulatePhysics" /\ NonNegative(c.Q_out_sp)) =>
           /\ physicsState.Q_out <= cap => physicsState'.Q_out <= cap
           /\ IsExcessDemandRun =>
                /\ c.Q_out_sp > cap
                /\ physicsState.Q_out <= cap
                /\ physicsState'.Q_out =
                     physicsState.Q_out
                       + RoundDiv(cap - physicsState.Q_out, RAMP_RATE_DEN)
                /\ ticks' = MaxHeldTicks =>
                     cap - physicsState'.Q_out < RAMP_RATE_DEN \div 2
    ]_vars

\* the setpoint is 200 m3/h and the distribution flow has settled at 120
C24_Witness ==
  /\ scenario = "Demand200"
  /\ op = "simulatePhysics"
  /\ currentControls.Q_out_sp = 200 * Micro
  /\ physicsState.Q_out > 119 * Micro
  /\ physicsState.Q_out <= DIST_PUMP_CAPACITY * Micro
  /\ physicsState.level_clearwell < prev.level_clearwell

\* C25: the RO feed targets follow the table for every combination of
\* ro_feed_pump_on, valve_201/202/203, suction_ok = level_feed_tank > 0.2 and
\* eta = pump_feed_health / 100: pump on, suction ok and all three valves open
\* gives (Q, P) = (100 * eta, 12); with valve_201 open and valve_202 or
\* valve_203 closed (0, 30); with valve_201 closed (0, 33); every other case
\* (0, 0); Q_feed and pressure_feed ramp toward these targets.
C25_FeedTargetTable ==
  [][ LET c == currentControls
          ps == physicsState
          suction_ok == ps.level_feed_tank > LevelUnit \div 5
          pumping == c.ro_feed_pump_on /\ suction_ok
          \* 100 * eta, in 10^-6 m3/h
          Q_full == ps.pump_feed_health * ((100 * Micro) \div (100 * HealthUnit))
          tQ == IF pumping /\ c.valve_201_open /\ c.valve_202_open
                   /\ c.valve_203_open
                  THEN Q_full ELSE 0
          tP == IF ~pumping THEN 0
                ELSE IF ~c.valve_201_open THEN 33 * Micro
                ELSE IF c.valve_202_open /\ c.valve_203_open THEN 12 * Micro
                ELSE 30 * Micro
      IN op' = "simulatePhysics" =>
           /\ target_Q_feed(ps, c) = tQ
           /\ target_P_feed(ps, c) = tP
           /\ physicsState'.Q_feed = ps.Q_feed + RoundDiv(tQ - ps.Q_feed, 10)
           /\ physicsState'.pressure_feed =
                ps.pressure_feed + RoundDiv(tP - ps.pressure_feed, 2)
    ]_vars

\* P-201 at half health has pumped through the open RO block: the feed flow
\* has moved from 100 toward 50 m3/h at 12 bar
C25_Witness ==
  /\ scenario = "table"
  /\ op = "simulatePhysics"
  /\ ticks = 1
  /\ prev = WornPhysics
  /\ currentControls.ro_feed_pump_on /\ currentControls.valve_201_open
  /\ currentControls.valve_202_open /\ currentControls.valve_203_open
  /\ physicsState.Q_feed = prev.Q_feed + RoundDiv(50 * Micro - prev.Q_feed, 10)
  /\ physicsState.Q_feed < 96 * Micro
  /\ physicsState.pressure_feed = 12 * Micro

\* C26: the distribution targets follow the table: dist_pump_on with
\* level_clearwell > 0.1 and valve_401 open gives (Q, P) =
\* (min(Q_out_sp, 120), 4.0); with valve_401 closed (0, 15.0); every other
\* case, dist_pump_on with level_clearwell <= 0.1 included, (0, 0); Q_out and
\* pressure_dist ramp toward these targets.
C26_DistTargetTable ==
  [][ LET c == currentControls
          ps == physicsState
          pumping == c.dist_pump_on /\ ps.level_clearwell > LevelUnit \div 10
          tQ == IF pumping /\ c.valve_401_open
                  THEN (IF c.Q_out_sp < 120 * Micro THEN c.Q_out_sp
                                                   ELSE 120 * Micro)
                  ELSE 0
          tP == IF ~pumping THEN 0
                ELSE IF c.valve_401_open THEN 4 * Micro
                ELSE 15 * Micro
      IN op' = "simulatePhysics" =>
           /\ target_Q_dist(ps, c) = tQ
           /\ target_P_dist(ps, c) = tP
           /\ physicsState'.Q_out = ps.Q_out + RoundDiv(tQ - ps.Q_out, 10)
           /\ physicsState'.pressure_dist =
                ps.pressure_dist + RoundDiv(tP - ps.pressure_dist, 2)
    ]_vars

\* the distribution pump has run one tick on a clearwell below 0.1 m, against
\* a closed valve 401: no flow and no pressure
C26_Witness ==
  /\ scenario = "table"
  /\ op = "simulatePhysics"
  /\ ticks = 1
  /\ prev = DryClearwellPhysics
  /\ currentControls.dist_pump_on /\ ~currentControls.valve_401_open
  /\ currentControls.Q_out_sp = 150 * Micro
  /\ physicsState.Q_out = 4
  /\ physicsState.pressure_dist = 0

\* C27: the wellfield targets follow the table: wellfield_on with valve_101
\* open gives (Q, P) = (110, 3.0); with valve_101 closed (0, 12.0) and a debit
\* of 0.3 * dt from pump_well_health in that same tick; wellfield off gives
\* (0, 0) whatever the valve, and no debit.
C27_WellTargetTable ==
  [][ LET c == currentControls
          ps == physicsState
          tQ == IF c.wellfield_on /\ c.valve_101_open THEN 110 * Micro ELSE 0
          tP == IF ~c.wellfield_on THEN 0
                ELSE IF c.valve_101_open THEN 3 * Micro
                ELSE 12 * Micro
      IN op' = "simulatePhysics" =>
           /\ target_Q_well(c) = tQ
           /\ target_P_well(c) = tP
           /\ physicsState'.Q_wellfield =
                ps.Q_wellfield + RoundDiv(tQ - ps.Q_wellfield, 10)
           /\ physicsState'.pressure_well =
                ps.pressure_well + RoundDiv(tP - ps.pressure_well, 2)
           /\ physicsState'.pump_well_health =
                IF c.wellfield_on /\ ~c.valve_101_open
                  THEN Max0(ps.pump_well_health - 3)
                  ELSE ps.pump_well_health
    ]_vars

\* the wellfield has run one tick from rest against the closed valve 101:
\* 6 bar, no flow, and 0.03 taken from pump_well_health
C27_Witness ==
  /\ scenario = "table"
  /\ op = "simulatePhysics"
  /\ ticks = 1
  /\ prev = InitialPhysics
  /\ currentControls.wellfield_on /\ ~currentControls.valve_101_open
  /\ physicsState.Q_wellfield = 0
  /\ physicsState.pressure_well = 6 * Micro
  /\ physicsState.pump_well_health = 100 * HealthUnit - 3

\* new lies between old and target, at a share 1/den of the way, and no
\* farther from target than old
RampedBy(old, new, target, den) ==
  /\ new = old + RoundDiv(target - old, den)
  /\ (old <= target) => (old <= new /\ new <= target)
  /\ (old >= target) => (target <= new /\ new <= old)

\* C28: first-order ramp: on every tick each of the three flows moves exactly
\* 10 % and each of the three pressures exactly 50 % of the way from its prior
\* value to its target, so a value never overshoots its target and, while the
\* target stays, approaches it monotonically.
C28_FirstOrderRamp ==
  [][ LET c == currentControls
          old == physicsState
          new == physicsState'
      IN op' = "simulatePhysics" =>
           /\ RampedBy(old.Q_wellfield, new.Q_wellfield, target_Q_well(c), 10)
           /\ RampedBy(old.Q_feed, new.Q_feed, target_Q_feed(old, c), 10)
           /\ RampedBy(old.Q_out, new.Q_out, target_Q_dist(old, c), 10)
           /\ RampedBy(old.pressure_well, new.pressure_well, target_P_well(c), 2)
           /\ RampedBy(old.pressure_feed, new.pressure_feed,
                       target_P_feed(old, c), 2)
           /\ RampedBy(old.pressure_dist, new.pressure_dist,
                       target_P_dist(old, c), 2)
    ]_vars

\* two ticks from rest with every pump on and every valve open: the flows are
\* at 19 % and the pressures at 75 % of their targets
C28_Witness ==
  /\ scenario = "table"
  /\ op = "simulatePhysics"
  /\ ticks = 2
  /\ currentControls.Q_out_sp = 80 * Micro
  /\ physicsState.Q_wellfield = 209 * (Micro \div 10)
  /\ physicsState.Q_feed = 19 * Micro
  /\ physicsState.Q_out = 152 * (Micro \div 10)
  /\ physicsState.pressure_well = 225 * (Micro \div 100)
  /\ physicsState.pressure_feed = 9 * Micro
  /\ physicsState.pressure_dist = 3 * Micro

\* C29: a tick takes the chlorine debit 0.2 * dt from membrane_health exactly
\* when, after that tick's ramps, integrated Cl_true > 0.1 and integrated
\* Q_feed > 0; it reads the integrated Q_feed, not the published one, so it is
\* taken in ticks whose published Q_feed is 0 (integrated Q_feed in (0, 1]),
\* and it is never taken while Q_feed has been exactly 0 since the start.
C29_ChlorineDebit ==
  [][ LET old == physicsState
          new == physicsState'
          chlorine == new.Cl_true > Micro \div 10 /\ new.Q_feed > 0
          burst == new.pressure_feed > 20 * Micro
      IN op' = "simulatePhysics" =>
           /\ new.membrane_health =
                Max0(Max0(old.membrane_health - (IF chlorine THEN 2 ELSE 0))
                     - (IF burst THEN 10 ELSE 0))
           /\ (chlorine /\ new.Q_feed <= 1 * Micro /\ ~burst) =>
                /\ \A d \in TickDraws : SimulationState(newState', d).Q_feed = 0
                /\ new.membrane_health = Max0(old.membrane_health - 2)
           /\ scenario = "ClStatic" =>
                /\ new.Q_feed = 0
                /\ new.membrane_health = 100 * HealthUnit
    ]_vars

\* the feed flow has coasted down to (0, 1] m3/h, is published as 0, and the
\* tick has still taken 0.02 from membrane_health
C29_Witness ==
  /\ scenario = "ClCoast"
  /\ op = "simulatePhysics"
  /\ physicsState.Q_feed > 0
  /\ physicsState.Q_feed <= 1 * Micro
  /\ Published(0).Q_feed = 0
  /\ physicsState.Cl_true > Micro \div 10
  /\ physicsState.pressure_feed <= 20 * Micro
  /\ prev.membrane_health - physicsState.membrane_health = 2

\* C30: dP_ro before jitter is 0.5 + (Q_feed / 100) * 1.5 when Q_feed > 1 and
\* membrane_health >= 30, 0.2 times that when Q_feed > 1 and
\* membrane_health < 30, and 0 when Q_feed <= 1; at constant Q_feed > 1 the
\* tick in which membrane_health first drops below 30 lowers dP_ro to one
\* fifth.
C30_RuptureCollapse ==
  [][ LET Q == physicsState'.Q_feed
          h == physicsState'.membrane_health
          intact == Micro \div 2 + RoundDiv(Q * 3, 200)
          expected == IF Q <= 1 * Micro THEN 0
                      ELSE IF h < 30 * HealthUnit THEN RoundDiv(intact, 5)
                      ELSE intact
      IN op' = "simulatePhysics" =>
           /\ newState'.dP_ro = expected
           /\ (newState.valid /\ physicsState.Q_feed = Q /\ Q > 1 * Micro
                /\ physicsState.membrane_health >= 30 * HealthUnit
                /\ h < 30 * HealthUnit) =>
                newState'.dP_ro = RoundDiv(newState.dP_ro, 5)
    ]_vars

\* S3 at full feed flow: the chlorine debit has just taken membrane_health
\* below 30 and dP_ro has fallen from 2.0 to 0.4 bar
C30_Witness ==
  /\ scenario = "S3"
  /\ op = "simulatePhysics"
  /\ prev.membrane_health >= 30 * HealthUnit
  /\ physicsState.membrane_health < 30 * HealthUnit
  /\ physicsState.Q_feed = prev.Q_feed
  /\ physicsState.Q_feed > 99 * Micro
  /\ newState.dP_ro = 4 * (Micro \div 10)
  /\ dP_peak >= 19 * (Micro \div 10)

IsEStopRun == scenario \in {"EStop", "EStopRun"}
\* ticks for Cl_true <= 50 to decay to 0.1 at the factor 0.9 per tick, rounded
\* up to whole seconds
EStopSettle == 6 * TicksPerSecond

\* C31: once the ten boolean controls are false and stay false, after
\* handleEmergencyStop, no pump or pipe health decreases on any tick, the
\* membrane_health debit of 0.2 * dt stops within about 60 ticks, the time
\* Cl_true takes to decay below 0.1, and no health value decreases after that.
C31_EStopStopsDamage ==
  [][ IsEStopRun =>
        /\ \A b \in BooleanControls : ~currentControls[b]
        /\ \A n \in NumericControls : currentControls[n] = 0
        /\ \A h \in HealthVars \ {"membrane_health"} :
             physicsState'[h] = physicsState[h]
        /\ physicsState'.membrane_health >= Max0(physicsState.membrane_health - 2)
        /\ physicsState'.Cl_true <= physicsState.Cl_true
        /\ ticks' > EStopSettle =>
             /\ physicsState'.Cl_true <= Micro \div 10
             /\ physicsState'.membrane_health = physicsState.membrane_health
    ]_vars

\* E-Stop from the worst state: 58 ticks have each taken 0.02 from
\* membrane_health while the chlorine decayed, and the debit has stopped
C31_Witness ==
  /\ scenario = "EStop"
  /\ ticks = EStopSettle
  /\ physicsState.membrane_health = 50 * HealthUnit - 2 * 58
  /\ physicsState.membrane_health = prev.membrane_health
  /\ physicsState.Q_feed > 0
  /\ physicsState.pipe_feed_health = 50 * HealthUnit
  /\ physicsState.pump_well_health = 50 * HealthUnit

\* C32: under the Normal Operation preset of handleReset, held from the state
\* as constructed, Cl_true settles at 0.9 > 0.1 with Q_feed > 0, so every tick
\* from the second on takes 0.2 * dt from membrane_health until it is 0, while
\* the feed tank keeps its suction.
C32_NormalOperationWear ==
  [][ scenario = "Normal" =>
        /\ \A b \in BooleanControls : currentControls[b]
        /\ currentControls.NaOH_dose = 5 * Micro
        /\ currentControls.Cl_dose = 1 * Micro
        /\ currentControls.Q_out_sp = 80 * Micro
        /\ physicsState'.Q_feed > 0
        /\ physicsState'.level_feed_tank > LevelUnit \div 5
        /\ physicsState'.Cl_true <= 9 * (Micro \div 10)
        /\ physicsState'.membrane_health =
             IF ticks' = 1 THEN 100 * HealthUnit
                           ELSE Max0(physicsState.membrane_health - 2)
        /\ ticks' >= S1Ticks => physicsState'.Cl_true > 89 * (Micro \div 100)
        /\ ticks' = MaxHeldTicks => physicsState'.membrane_health = 0
    ]_vars

\* Normal Operation has run until the membrane is gone: the last debit has
\* taken membrane_health to 0 with the plant at full flow
C32_Witness ==
  /\ scenario = "Normal"
  /\ prev.membrane_health = 2
  /\ physicsState.membrane_health = 0
  /\ physicsState.Q_feed > 99 * Micro
  /\ physicsState.Cl_true > 89 * (Micro \div 100)
  /\ physicsState.level_feed_tank > LevelUnit \div 5
  /\ ticks = 5001

\* the pump and pipe health values other than that of P-201
NonFeedHealth ==
  {"pump_well_health", "pump_dist_health", "pipe_well_health",
   "pipe_feed_health", "pipe_dist_health"}
Hydraulics ==
  {"Q_wellfield", "Q_feed", "Q_out", "pressure_well", "pressure_feed",
   "pressure_dist", "level_feed_tank", "level_clearwell", "Cl_true"}
\* ps with every field of fields set to x
WithAll(ps, fields, x) ==
  [f \in DOMAIN ps |-> IF f \in fields THEN x ELSE ps[f]]
Only(ps, fields) == [f \in fields |-> ps[f]]

\* C33: two runs under the same controls from states that differ only in
\* pump_well_health, pump_dist_health and the three pipe health values agree
\* on every other integrated variable after every tick: a pump or pipe at 0 %
\* health still delivers full flow and pressure. Of the health values only
\* pump_feed_health reaches the flows, pressures, levels and Cl_true.
C33_NonFeedHealthInert ==
  [][ op' = "simulatePhysics" =>
        \A x \in {0, 50 * HealthUnit, 100 * HealthUnit} :
          LET other == PhysicsStep(WithAll(physicsState, NonFeedHealth, x),
                                   currentControls)
              mem == PhysicsStep(WithAll(physicsState, {"membrane_health"}, x),
                                 currentControls)
          IN /\ Only(other, (DOMAIN other) \ NonFeedHealth)
                  = Only(physicsState', (DOMAIN other) \ NonFeedHealth)
             /\ Only(mem, Hydraulics) = Only(physicsState', Hydraulics)
    ]_vars

\* every pump running with open valves on the worn-out plant: the tick has
\* moved the flows and pressures as it would with healthy pumps and pipes,
\* and a healthy P-201 alone would have given a different feed flow
C33_Witness ==
  /\ scenario = "table"
  /\ op = "simulatePhysics"
  /\ ticks = 1
  /\ prev = RestLowPhysics
  /\ \A b \in TableSwitches : currentControls[b]
  /\ physicsState.Q_wellfield = 11 * Micro
  /\ physicsState.Q_out > 7 * Micro
  /\ physicsState.pressure_dist = 2 * Micro
  /\ physicsState.Q_feed
       # PhysicsStep(WithAll(prev, {"pump_feed_health"}, 100 * HealthUnit),
                     currentControls).Q_feed

\* C34: for every control sequence whose setpoints stay in their declared
\* ranges the integrated state satisfies 0 <= Q_wellfield <= 110,
\* 0 <= Q_feed <= 100, 0 <= pressure_well <= 12, 0 <= pressure_feed <= 33,
\* 0 <= pressure_dist <= 15 and 0 <= Cl_true <= 50.
C34_IntegratedBounds ==
  rangeKept =>
    /\ Between(physicsState.Q_wellfield, 0, WELL_FLOW_RATE * Micro)
    /\ Between(physicsState.Q_feed, 0, RO_FEED_RATE * Micro)
    /\ Between(physicsState.pressure_well, 0, 12 * Micro)
    /\ Between(physicsState.pressure_feed, 0, 33 * Micro)
    /\ Between(physicsState.pressure_dist, 0, 15 * Micro)
    /\ Between(physicsState.Cl_true, 0, 50 * Micro)

\* P-201 has been held against the closed valve 201 until pressure_feed sits
\* at its upper bound, the shutoff head of 33 bar
C34_Witness ==
  /\ scenario = "D201"
  /\ op = "simulatePhysics"
  /\ rangeKept
  /\ prev.pressure_feed = 33 * Micro
  /\ physicsState.pressure_feed = 33 * Micro
  /\ physicsState.Q_feed = 0

\* C35: the local simulation advances only on failed polls: simulatePhysics
\* is called exactly once for each polling tick whose /sync request fails and
\* never for one whose request succeeds, so the local integrated state is
\* unchanged across successful polls and a fallback resumes from the local
\* state's own last value.
C35_LocalSimOnFailedPolls ==
  [][ LET finishing == {p \in DOMAIN polls : polls[p].pc # "done"
                                             /\ polls'[p].pc = "done"}
          failed == {p \in finishing : polls'[p].state = "local"}
      IN /\ Cardinality(finishing) <= 1
         /\ ticks' = ticks + Cardinality(failed)
         /\ failed = {} => UNCHANGED <<physicsState, newState>>
         /\ failed # {} =>
              physicsState' = PhysicsStep(physicsState, currentControls)
         /\ ticks' = Cardinality({p \in DOMAIN polls' : polls'[p].state = "local"})
    ]_vars

\* the wellfield was switched on, one poll was served by the backend and left
\* the local state as constructed, and the next failed and ran the first
\* local tick from there
C35_Witness ==
  /\ Len(polls) = 2
  /\ polls[1].state = "backend"
  /\ polls[2].state = "local"
  /\ onData.poll = 2 /\ onData.why = "networkError"
  /\ ticks = 1
  /\ prev = InitialPhysics
  /\ currentControls.wellfield_on
  /\ physicsState.Q_wellfield = 11 * Micro

\* C37: onData payloads are delivered in the order in which their polling
\* ticks fired: a poll started later never delivers its state before a poll
\* started earlier.
C37_DeliveryInFiringOrder ==
  \A p, q \in DOMAIN polls :
    (p < q /\ polls[q].pc = "done") => polls[p].pc = "done"

\* the polls whose callback has run to its end
Completed(ps) == {p \in DOMAIN ps : ps[p].pc = "done"}

\* C36: after disconnect() returns, no further onData or onStatus callback is
\* invoked, including for polls that were still awaiting their /sync
\* response when disconnect() was called.
C36_SilentAfterDisconnect ==
  [][ (timer = 0 /\ timer' = 0) => UNCHANGED <<onData, statusLog>> ]_vars

\* C38: after any sequence of connect() and disconnect() calls at most one
\* polling interval is active, and none after disconnect(); so the local
\* simulation is never stepped more than once per interval firing.
C38_OneInterval ==
  /\ Cardinality(intervals) <= 1
  /\ intervals = (IF timer = 0 THEN {} ELSE {timer})
  /\ op = "disconnect" => timer = 0 /\ intervals = {}
  /\ \A p \in DOMAIN polls : polls[p].deliveries <= 1
  /\ ticks <= Cardinality(Completed(polls))
  /\ ticks = Cardinality({p \in DOMAIN polls : polls[p].state = "local"})

\* connect was called twice without a disconnect between, the one live
\* interval is the second, and a firing of each interval has fallen back
C38_Witness ==
  /\ connects = 2
  /\ timer = 2
  /\ intervals = {2}
  /\ Len(polls) = 2
  /\ polls[1].interval = 1 /\ polls[1].state = "local"
  /\ polls[2].interval = 2 /\ polls[2].state = "local"
  /\ ticks = 2

\* C39: each connect() reports 'connecting' exactly once, and every completed
\* polling tick then reports 'connected', whether the tick was served by the
\* backend or by the local fallback; 'disconnected' is never reported.
C39_StatusSequence ==
  /\ statusLog.connecting = connects
  /\ statusLog.connected = Cardinality(Completed(polls))
  /\ statusLog.disconnected = 0
  /\ op = "connect" => statusLog.last = "connecting"
  /\ op \in {"simulatePhysics", "jsonOk"} => statusLog.last = "connected"

\* after one connect a poll was served by the backend and the next fell back
C39_Witness ==
  /\ connects = 1
  /\ Len(polls) = 2
  /\ polls[1].state = "backend"
  /\ polls[2].state = "local"
  /\ onData.poll = 2
  /\ ~backendAvailable
  /\ statusLog = [last |-> "connected", connecting |-> 1, connected |-> 2,
                  disconnected |-> 0]

====
